---------------------------- MODULE Spec2Model ----------------------------
(***************************************************************************)
(* Model of the NY Fed longer-run federal funds rate extractor              *)
(* (rmmomin/nyfed-neutral-rate).                                            *)
(*                                                                          *)
(* Conventions                                                              *)
(*   - rates are fixed-point integers in units of 0.0001 (3.13 is 31300);   *)
(*   - dates are integers YYYYMMDD, so that datetime comparison is integer  *)
(*     comparison; NoDate stands for a survey_date of None;                 *)
(*   - Python None and pandas NaN are the value Null;                       *)
(*   - file names and labels that the code inspects character by character  *)
(*     are sequences of one-character strings.                              *)
(*   - a spreadsheet is the sequence of its sheets, a sheet the sequence of  *)
(*     its rows; an answer of the inference service is the parsed value.    *)
(***************************************************************************)
EXTENDS Integers, Sequences, FiniteSets, TLC

VARIABLES
    \* scripts/04_combine_and_plot.py
    csv_present,    \* which of the two extract tables exist on disk
    xlsx_csv,       \* rows of data_out/xlsx_extracts.csv
    pdf_csv,        \* rows of data_out/pdf_extracts.csv
    combined,       \* rows of data_out/nyfed_ff_longrun_percentiles.csv
    pc_combine,     \* "idle", "done" (step 04 saved the CSV from the tables as
                    \* they are now) or "exit1" (sys.exit(1))
    tie_order,      \* how the build's quicksort leaves rows of equal key
    doc_rows,       \* the records the documents at hand yield to an extraction
    \* src/utils.py normalize_percent, called on one value
    norm_value,     \* the argument
    norm_result,    \* the value returned
    pc_norm,        \* "call" or "returned"
    \* scripts/03_extract_pdf_llm.py determine_panel, called on one file name
    dp_filename,    \* the filename argument
    dp_date,        \* the survey_date argument (NoDate for None)
    dp_result,      \* the panel returned
    pc_dp,          \* "call" or "returned"
    \* src/extract_xlsx.py extract_from_xlsx, called on one workbook
    xl_doc,         \* the filepath, file_url and survey_date arguments
    xl_workbook,    \* the sheets of the file, in sheet order
    xl_survey_type, \* the survey_type argument
    xl_results,     \* the list returned
    pc_xl,          \* "call" or "returned"
    \* scripts/02_extract_xlsx.py main
    s2_dir,         \* the *.xlsx files of data_dir: name -> sheets
    s2_xlsx_files,  \* sorted(data_dir.glob("*.xlsx"))
    s2_next,        \* position of the loop in xlsx_files
    s2_all_results, \* all_results
    s2_csv,         \* the rows written to xlsx_extracts.csv
    pc_s2,          \* "start", "loop", "done" or "raised"
    \* scripts/03_extract_pdf_llm.py main
    s3_env,         \* OPENAI_API_KEY set or not, xlsx_extracts.csv, the
                    \* *.pdf files of data_dir, the --limit option
    s3_xlsx_dates,  \* xlsx_dates
    s3_pdf_files,   \* pdf_files
    s3_next,        \* position of the loop in pdf_files
    s3_results,     \* results
    s3_skipped,     \* skipped
    s3_calls,       \* requests sent to the inference service
    s3_last,        \* process_pdf's last call: its result and how it ended
    s3_csv,         \* the rows written to pdf_extracts.csv
    pc_s3,          \* "start", "loop", "done", "exit1" or "raised"
    \* src/utils.py matches_longer_run_ff, called on one text
    mr_text,        \* the argument
    mr_result,      \* the value returned
    pc_mr,          \* "call" or "returned"
    \* src/extract_pdf.py extract_from_pdf, called on one PDF
    pd_doc,         \* the arguments and what the readers find in the file
    pd_pctls,       \* pctls
    pd_page,        \* pdf_page
    pd_source,      \* source
    pd_queue,       \* what the running loop has still to visit
    pd_calls,       \* extract_tables_with_pdfplumber called; pages sent to ocr_page
    pd_results,     \* the list returned
    pc_pd,          \* "start", "text", "tables", "ocr", "ocr_more", "returned"
    \* src/extract_pdf_openai.py extract_from_pdf_openai, called on one PDF
    oa_doc,         \* the arguments, and whether OPENAI_API_KEY is set
    oa_response,    \* what the inference service does with the request
    oa_results,     \* the list returned
    pc_oa,          \* "call" or "returned"
    \* scripts/sep_02b_extract_pdf_llm.py dots_to_percentiles, called once
    dq_dots,        \* longer_run_dots: the (key, count) items in key order
    dq_result,      \* the dictionary returned
    pc_dq,          \* "call" or "returned"
    \* scripts/run_all.py and scripts/sep_run_all.py: one run of a pipeline
    run_env,        \* the pipeline, OPENAI_API_KEY set or not, data_raw before the run, the site
    run_files,      \* the documents in data_raw
    run_scripts,    \* the scripts still to run, in order
    run_script,     \* the script that is running, "" between scripts
    run_todo,       \* the documents the running script has still to handle
    run_work,       \* the documents handled so far: script, document, work done
    run_returncode, \* the exit status of the run, Null while it runs
    pc_run,         \* "start", "next", "script", "complete" or "failed"
    \* scripts/sep_02c_combine_extracts.py main, run any number of times
    sc_summary,     \* data_out/sep_summary.csv: read as the HTML table, written as the output
    sc_pdf_extracts, \* data_out/sep_pdf_extracts.csv
    sc_backup,      \* data_out/sep_summary_html_only.csv
    sc_first,       \* the combined table that the first run on these extracts wrote
    sc_runs,        \* the runs of the combine step since an extractor last wrote
    pc_sc,          \* "ready", or "raised" when the last run ended in an exception
    \* src/extract_pdf.py parse_percentiles_from_text, called once
    pp_text,        \* the text section
    pp_result,      \* the dictionary returned
    pc_pp,          \* "call" or "returned"
    \* src/extract_pdf.py find_longer_run_section, called once
    fs_pages,       \* the texts of the pages, page 1 first
    fs_sections,    \* the list returned
    pc_fs,          \* "call" or "returned"
    \* src/scrape_manifest.py parse_date_from_url, called once
    pu_url,         \* the URL
    pu_result,      \* the pair returned: date and survey type
    pc_pu,          \* "call" or "returned"
    \* src/download.py download_file on the file of one link, called any
    \* number of times, and src/pipeline.py process_meeting after it
    dl_url,         \* the URL of the link
    dl_files,       \* data_dir: the files by name, each "partial" or "complete"
    dl_force,       \* force of the call that is running
    dl_attempt,     \* attempt of the loop of download_file
    dl_requests,    \* the requests the call that is running has made
    dl_return,      \* what the last call returned: "True", "False", or "ValueError"
                    \* for the exception it raised; "" for none
    dl_calls,       \* the calls of download_file so far
    dl_full,        \* a download of the file has written all of it since the last partial write
    dl_found,       \* the path process_meeting handed to an extractor, NoText for none
    pc_dl           \* "idle", "attempt" or "processed"

combineVars == <<csv_present, xlsx_csv, pdf_csv, combined, pc_combine, tie_order,
                 doc_rows>>
normVars == <<norm_value, norm_result, pc_norm>>
panelVars == <<dp_filename, dp_date, dp_result, pc_dp>>
xlVars == <<xl_doc, xl_workbook, xl_survey_type, xl_results, pc_xl>>

step2Vars == <<s2_dir, s2_xlsx_files, s2_next, s2_all_results, s2_csv, pc_s2>>
step3Vars ==
    <<s3_env, s3_xlsx_dates, s3_pdf_files, s3_next, s3_results, s3_skipped,
      s3_calls, s3_last, s3_csv, pc_s3>>
matchVars == <<mr_text, mr_result, pc_mr>>
pdfVars ==
    <<pd_doc, pd_pctls, pd_page, pd_source, pd_queue, pd_calls, pd_results, pc_pd>>
openaiVars == <<oa_doc, oa_response, oa_results, pc_oa>>
dotsVars == <<dq_dots, dq_result, pc_dq>>
runVars == <<run_env, run_files, run_scripts, run_script, run_todo, run_work,
             run_returncode, pc_run>>
sepCombineVars == <<sc_summary, sc_pdf_extracts, sc_backup, sc_first, sc_runs, pc_sc>>
parseVars == <<pp_text, pp_result, pc_pp>>
sectionVars == <<fs_pages, fs_sections, pc_fs>>
urlVars == <<pu_url, pu_result, pc_pu>>
downloadVars == <<dl_url, dl_files, dl_force, dl_attempt, dl_requests, dl_return,
                  dl_calls, dl_full, dl_found, pc_dl>>

vars == <<combineVars, normVars, panelVars, xlVars, step2Vars, step3Vars,
    matchVars, pdfVars, openaiVars, dotsVars, runVars, sepCombineVars,
    parseVars, sectionVars, urlVars, downloadVars>>

\* the variables each part of the program leaves alone
outsideCombine == <<normVars, panelVars, xlVars, step2Vars, step3Vars,
    matchVars, pdfVars, openaiVars, dotsVars, runVars, sepCombineVars,
    parseVars, sectionVars, urlVars, downloadVars>>
outsideNorm == <<combineVars, panelVars, xlVars, step2Vars, step3Vars,
    matchVars, pdfVars, openaiVars, dotsVars, runVars, sepCombineVars,
    parseVars, sectionVars, urlVars, downloadVars>>
outsidePanel == <<combineVars, normVars, xlVars, step2Vars, step3Vars,
    matchVars, pdfVars, openaiVars, dotsVars, runVars, sepCombineVars,
    parseVars, sectionVars, urlVars, downloadVars>>
outsideXl == <<combineVars, normVars, panelVars, step2Vars, step3Vars,
    matchVars, pdfVars, openaiVars, dotsVars, runVars, sepCombineVars,
    parseVars, sectionVars, urlVars, downloadVars>>
outsideStep2 == <<combineVars, normVars, panelVars, xlVars, step3Vars,
    matchVars, pdfVars, openaiVars, dotsVars, runVars, sepCombineVars,
    parseVars, sectionVars, urlVars, downloadVars>>
outsideStep3 == <<combineVars, normVars, panelVars, xlVars, step2Vars,
    matchVars, pdfVars, openaiVars, dotsVars, runVars, sepCombineVars,
    parseVars, sectionVars, urlVars, downloadVars>>
outsideMatch == <<combineVars, normVars, panelVars, xlVars, step2Vars,
    step3Vars, pdfVars, openaiVars, dotsVars, runVars, sepCombineVars,
    parseVars, sectionVars, urlVars, downloadVars>>
outsidePdf == <<combineVars, normVars, panelVars, xlVars, step2Vars,
    step3Vars, matchVars, openaiVars, dotsVars, runVars, sepCombineVars,
    parseVars, sectionVars, urlVars, downloadVars>>
outsideOpenai == <<combineVars, normVars, panelVars, xlVars, step2Vars,
    step3Vars, matchVars, pdfVars, dotsVars, runVars, sepCombineVars,
    parseVars, sectionVars, urlVars, downloadVars>>
outsideDots == <<combineVars, normVars, panelVars, xlVars, step2Vars,
    step3Vars, matchVars, pdfVars, openaiVars, runVars, sepCombineVars,
    parseVars, sectionVars, urlVars, downloadVars>>
outsideRun == <<combineVars, normVars, panelVars, xlVars, step2Vars,
    step3Vars, matchVars, pdfVars, openaiVars, dotsVars, sepCombineVars,
    parseVars, sectionVars, urlVars, downloadVars>>
outsideSepCombine == <<combineVars, normVars, panelVars, xlVars, step2Vars,
    step3Vars, matchVars, pdfVars, openaiVars, dotsVars, runVars, parseVars,
    sectionVars, urlVars, downloadVars>>
outsideParse == <<combineVars, normVars, panelVars, xlVars, step2Vars,
    step3Vars, matchVars, pdfVars, openaiVars, dotsVars, runVars,
    sepCombineVars, sectionVars, urlVars, downloadVars>>
outsideSection == <<combineVars, normVars, panelVars, xlVars, step2Vars,
    step3Vars, matchVars, pdfVars, openaiVars, dotsVars, runVars,
    sepCombineVars, parseVars, urlVars, downloadVars>>
outsideUrl == <<combineVars, normVars, panelVars, xlVars, step2Vars,
    step3Vars, matchVars, pdfVars, openaiVars, dotsVars, runVars,
    sepCombineVars, parseVars, sectionVars, downloadVars>>
outsideDownload == <<combineVars, normVars, panelVars, xlVars, step2Vars,
    step3Vars, matchVars, pdfVars, openaiVars, dotsVars, runVars,
    sepCombineVars, parseVars, sectionVars, urlVars>>

-----------------------------------------------------------------------------
(* Shared constants and helpers *)

Null == -1000000

\* None in a field that otherwise holds a string (notes)
NoNotes == "<None>"

PANEL_SPD == "SPD"
PANEL_SMP == "SMP"
PANEL_COMBINED == "Combined"
PANEL_MERGED == "Merged"

Panels == {PANEL_SPD, PANEL_SMP, PANEL_COMBINED}

SOURCE_XLSX == "xlsx"
SOURCE_PDF_TEXT == "pdf_text"
SOURCE_PDF_OCR == "pdf_ocr"
SOURCE_PDF_LLM == "pdf_llm"
SOURCE_PDF_OPENAI == "pdf_openai"

CONCEPT_FF_LONGER_RUN == "ff_longer_run_target"

\* ExtractedPercentile, as one row of a CSV table
ExtractedPercentile(date, panel, p25, p50, p75, source, url, path, page, notes) ==
    [survey_date |-> date, panel |-> panel,
     concept |-> CONCEPT_FF_LONGER_RUN,
     pctl25 |-> p25, pctl50 |-> p50, pctl75 |-> p75,
     source |-> source, file_url |-> url, local_path |-> path,
     pdf_page |-> page, notes |-> notes]

\* the three percentile fields of a record
PercentileKeys == {"pctl25", "pctl50", "pctl75"}

\* the permutations of 1..n
Orderings(n) ==
    {f \in [1..n -> 1..n] : \A i, j \in 1..n : i # j => f[i] # f[j]}

\* the subsequence of s at the positions in keep, in increasing position
SubSeqAt(s, keep) ==
    [p \in 1..Cardinality(keep) |->
        s[CHOOSE i \in keep : Cardinality({j \in keep : j < i}) = p - 1]]

\* lexicographic order on integer tuples of equal length
LexLess(a, b) ==
    \E k \in 1..Len(a) :
        /\ a[k] < b[k]
        /\ \A m \in 1..(k - 1) : a[m] = b[m]

\* a stable sort of s by the integer-tuple key of each position
StableSortByKey(s, key) ==
    LET n == Len(s)
        before(j, i) == LexLess(key[j], key[i]) \/ (key[j] = key[i] /\ j < i)
        rank == [i \in 1..n |-> Cardinality({j \in 1..n : before(j, i)}) + 1]
    IN  [p \in 1..n |-> s[CHOOSE i \in 1..n : rank[i] = p]]


NoDate == 0

\* str.lower() of one character
LowerChar(c) ==
    CASE c = "A" -> "a" [] c = "B" -> "b" [] c = "C" -> "c" [] c = "D" -> "d"
      [] c = "E" -> "e" [] c = "F" -> "f" [] c = "G" -> "g" [] c = "H" -> "h"
      [] c = "I" -> "i" [] c = "J" -> "j" [] c = "K" -> "k" [] c = "L" -> "l"
      [] c = "M" -> "m" [] c = "N" -> "n" [] c = "O" -> "o" [] c = "P" -> "p"
      [] c = "Q" -> "q" [] c = "R" -> "r" [] c = "S" -> "s" [] c = "T" -> "t"
      [] c = "U" -> "u" [] c = "V" -> "v" [] c = "W" -> "w" [] c = "X" -> "x"
      [] c = "Y" -> "y" [] c = "Z" -> "z" [] OTHER -> c

\* str.lower()
Lower(str) == [i \in 1..Len(str) |-> LowerChar(str[i])]

\* str.startswith(prefix)
StartsWith(str, prefix) ==
    /\ Len(prefix) <= Len(str)
    /\ \A i \in 1..Len(prefix) : str[i] = prefix[i]

\* the positions of str at which sub occurs
Occurrences(str, sub) ==
    {k \in 1..(Len(str) - Len(sub) + 1) : \A i \in 1..Len(sub) : str[k + i - 1] = sub[i]}

\* sub in str
Contains(str, sub) == Occurrences(str, sub) # {}

\* str.strip() for the blank character
RECURSIVE StripLeft(_)
StripLeft(str) ==
    IF str # <<>> /\ Head(str) = " " THEN StripLeft(Tail(str)) ELSE str

RECURSIVE StripRight(_)
StripRight(str) ==
    IF str # <<>> /\ str[Len(str)] = " "
    THEN StripRight(SubSeq(str, 1, Len(str) - 1))
    ELSE str

Strip(str) == StripRight(StripLeft(str))

\* str.replace(ch, "")
Remove(str, ch) == SubSeqAt(str, {i \in 1..Len(str) : str[i] # ch})

Abs(n) == IF n < 0 THEN -n ELSE n

-----------------------------------------------------------------------------
(* scripts/04_combine_and_plot.py: the combine (reconcile) step *)

\* df["source"].map({...}).fillna(9)
SourcePriority(source) ==
    CASE source = "xlsx" -> 0
      [] source = "pdf_llm" -> 1
      [] source = "pdf_text" -> 2
      [] source = "pdf_ocr" -> 3
      [] source = "pdf_openai" -> 1
      [] OTHER -> 9

\* the order pandas gives the panel strings (code-point order)
PanelOrd(panel) ==
    CASE panel = "Combined" -> 1
      [] panel = "Dealer" -> 2
      [] panel = "Merged" -> 3
      [] panel = "Participant" -> 4
      [] panel = "Primary Dealers" -> 5
      [] panel = "SMP" -> 6
      [] panel = "SPD" -> 7
      [] OTHER -> 8

\* the sort with the source_priority key left out
SortValuesDatePanelOnly(df) ==
    StableSortByKey(df,
        [i \in 1..Len(df) |-> <<df[i].survey_date, PanelOrd(df[i].panel)>>])

\* df.sort_values(["survey_date", "panel", "source_priority"])
SortValuesDatePanelPriority(df) ==
    StableSortByKey(df,
        [i \in 1..Len(df) |-> <<df[i].survey_date, PanelOrd(df[i].panel),
                                SourcePriority(df[i].source)>>])

\* the duplicate test inverted: a row is kept when its pair was seen before
DropDuplicatesInverted(df) ==
    SubSeqAt(df, {i \in 1..Len(df) :
        \E j \in 1..(i - 1) :
            <<df[j].survey_date, df[j].panel>> = <<df[i].survey_date, df[i].panel>>})

\* keep="last" in place of keep="first"
DropDuplicatesKeepLast(df) ==
    SubSeqAt(df, {i \in 1..Len(df) :
        \A j \in (i + 1)..Len(df) :
            <<df[j].survey_date, df[j].panel>> # <<df[i].survey_date, df[i].panel>>})

\* df.drop_duplicates(subset=["survey_date", "panel"], keep="first")
DropDuplicates(df) ==
    SubSeqAt(df, {i \in 1..Len(df) :
        \A j \in 1..(i - 1) :
            <<df[j].survey_date, df[j].panel>> # <<df[i].survey_date, df[i].panel>>})

\* the orders in which a sort of kind "quicksort" may leave rows of equal key:
\* as they came, or turned round
QuicksortTies == {"kept", "reversed"}

\* s back to front
Reversed(s) == [i \in 1..Len(s) |-> s[Len(s) + 1 - i]]

\* df.sort_values("survey_date"): one column, the default kind "quicksort",
\* which does not promise the input order for rows of one date
SortValuesDate(df) ==
    IF tie_order = "reversed"
    THEN StableSortByKey(Reversed(df),
             [i \in 1..Len(df) |-> <<df[Len(df) + 1 - i].survey_date>>])
    ELSE StableSortByKey(df, [i \in 1..Len(df) |-> <<df[i].survey_date>>])

\* lines 57-76 of main: concat, priority, sort, drop duplicates, sort by date
Reconcile(records) ==
    SortValuesDate(DropDuplicates(SortValuesDatePanelPriority(records)))

\* pd.concat(dfs, ignore_index=True) of the tables that exist
ConcatExtracts ==
    (IF "xlsx" \in csv_present THEN xlsx_csv ELSE <<>>)
        \o (IF "pdf" \in csv_present THEN pdf_csv ELSE <<>>)

\* bounds of the combine step's inputs
MaxRows == 2

CombineDates == {20240101, 20240301}
CombinePanels == {PANEL_COMBINED, PANEL_SPD}
CombineSources == {"xlsx", "pdf_llm", "pdf_text", "pdf_ocr", "pdf_openai", "manual"}
CombinePctls == {<<Null, Null, Null>>, <<27500, 30000, 32500>>}

CombineRows ==
    {ExtractedPercentile(d, p, v[1], v[2], v[3], s, "doc", "doc", Null, NoNotes) :
        d \in CombineDates, p \in CombinePanels, v \in CombinePctls,
        s \in CombineSources}

\* the sources src/pipeline.py tags its rows with (extract_from_xlsx and
\* extract_from_pdf)
PipelineSources == {"xlsx", "pdf_text", "pdf_ocr"}

\* the characters of str(e) that line 313 keeps
ERROR_MESSAGE_CHARS == 100

\* str(e)[:100]
Truncated(message) ==
    IF Len(message) > ERROR_MESSAGE_CHARS
    THEN SubSeq(message, 1, ERROR_MESSAGE_CHARS) ELSE message

\* str(e) of the exceptions process_meeting may raise: no message, a short
\* one, one of more than 100 characters
ProcessingMessages ==
    {"", "boom",
     "[Errno 36] File name too long: 'data_raw/2024-jan-2024-aaaaaaaaaaaaaaaaaaaaaaaaaaaaaaaaaaaaaaaaaaaaaaaaaaaaaaaaaaaaaaaaaaaaaaaaaaaaaaaaaaaaaaaaaa.xlsx'"}

\* src/pipeline.py main, lines 300-313: the row that stands for a meeting
\* whose processing raised e, with str(e) = message
ProcessingError(date, message) ==
    ExtractedPercentile(date, PANEL_COMBINED, Null, Null, Null, "", "", "",
                        Null, "processing_error: " \o Truncated(message))

\* the records an extraction can yield from the documents at hand
DocumentRows ==
    CombineRows
        \cup {ProcessingError(d, e) : d \in CombineDates, e \in ProcessingMessages}

\* the sets of at most n of the rows
RECURSIVE RowSetsUpTo(_, _)
RowSetsUpTo(rows, n) ==
    IF n = 0 THEN {{}}
    ELSE RowSetsUpTo(rows, n - 1)
            \cup {pool \cup {r} : pool \in RowSetsUpTo(rows, n - 1), r \in rows}

\* the tables of exactly k and of at most n of the rows
TablesOf(rows, k) == [1..k -> rows]
TablesUpTo(rows, n) == UNION {TablesOf(rows, k) : k \in 0..n}

\* all_results.sort(key=lambda r: (r.survey_date, r.panel), reverse=True)
SortNewestFirst(results) ==
    StableSortByKey(results,
        [i \in 1..Len(results) |->
            <<0 - results[i].survey_date, 0 - PanelOrd(results[i].panel)>>])

CombineStart ==
    /\ xlsx_csv = <<>>
    /\ pdf_csv = <<>>
    /\ combined = <<>>
    /\ pc_combine = "idle"

\* main of 02_extract_xlsx.py, lines 67-77: xlsx_extracts.csv is opened with
\* mode "w" and holds the rows of this run and no others, whatever it held
\* before: records of the workbooks now in data_raw, all tagged xlsx
WriteXlsxCsv ==
    /\ pc_combine # "off"
    /\ \E t \in TablesUpTo({x \in doc_rows : x.source = SOURCE_XLSX}, MaxRows) :
          xlsx_csv' = t
    /\ csv_present' = csv_present \cup {"xlsx"}
    /\ pc_combine' = "idle"
    /\ UNCHANGED <<pdf_csv, combined, tie_order, doc_rows>>
    /\ UNCHANGED outsideCombine

\* the table passed as --pdf-csv is written anew: main of 03_extract_pdf_llm.py
\* opens pdf_extracts.csv with mode "w" and writes the rows of this run,
\* whatever the file held before; a table of another extraction run carries
\* that run's source tags
WritePdfCsv ==
    /\ pc_combine # "off"
    /\ \E t \in TablesUpTo(doc_rows, MaxRows) : pdf_csv' = t
    /\ csv_present' = csv_present \cup {"pdf"}
    /\ pc_combine' = "idle"
    /\ UNCHANGED <<xlsx_csv, combined, tie_order, doc_rows>>
    /\ UNCHANGED outsideCombine

\* main of src/pipeline.py, lines 290-326: the rows of its own extraction and
\* the rows that stand for the meetings whose processing raised, newest first
\* and not reconciled, replace nyfed_ff_longrun_percentiles.csv
PipelineMain ==
    /\ pc_combine # "off"
    /\ \E t \in TablesUpTo({x \in doc_rows : x.source \in PipelineSources \cup {""}},
                           MaxRows) :
          combined' = SortNewestFirst(t)
    /\ pc_combine' = "idle"
    /\ UNCHANGED <<csv_present, xlsx_csv, pdf_csv, tie_order, doc_rows>>
    /\ UNCHANGED outsideCombine

\* main of 04_combine_and_plot.py, up to df.to_csv
Combine ==
    /\ pc_combine # "off"
    /\ IF csv_present = {}
       THEN /\ pc_combine' = "exit1"
            /\ UNCHANGED combined
       ELSE /\ combined' = Reconcile(ConcatExtracts)
            /\ pc_combine' = "done"
    /\ UNCHANGED <<csv_present, xlsx_csv, pdf_csv, tie_order, doc_rows>>
    /\ UNCHANGED outsideCombine

NextCombine == WriteXlsxCsv \/ WritePdfCsv \/ PipelineMain \/ Combine

-----------------------------------------------------------------------------
(* src/utils.py: normalize_percent *)

\* a Python value: None, float NaN, a str, a number (int or float, in units
\* of 0.0001) or an object of another type
PyNone == [t |-> "none", n |-> 0, s |-> <<>>]
PyNaN == [t |-> "nan", n |-> 0, s |-> <<>>]
PyNum(k) == [t |-> "num", n |-> k, s |-> <<>>]
PyStr(str) == [t |-> "str", n |-> 0, s |-> str]
PyOther == [t |-> "other", n |-> 0, s |-> <<>>]

DigitChars == {"0", "1", "2", "3", "4", "5", "6", "7", "8", "9"}

DigitVal(c) ==
    CASE c = "0" -> 0 [] c = "1" -> 1 [] c = "2" -> 2 [] c = "3" -> 3
      [] c = "4" -> 4 [] c = "5" -> 5 [] c = "6" -> 6 [] c = "7" -> 7
      [] c = "8" -> 8 [] c = "9" -> 9

\* int() of a sequence of digits
RECURSIVE DigitsVal(_)
DigitsVal(ds) ==
    IF ds = <<>> THEN 0
    ELSE 10 * DigitsVal(SubSeq(ds, 1, Len(ds) - 1)) + DigitVal(ds[Len(ds)])

\* float(str) for a plain decimal literal (optional sign, digits, at most one
\* point, at most four decimals), in units of 0.0001; Null for ValueError.
\* Exponents, "inf", "nan" and underscores are outside the literals modelled.
ParseFloat(str) ==
    LET signed == str # <<>> /\ Head(str) \in {"-", "+"}
        body == IF signed THEN Tail(str) ELSE str
        points == {i \in 1..Len(body) : body[i] = "."}
        point == IF points = {} THEN Len(body) + 1 ELSE CHOOSE i \in points : TRUE
        whole == SubSeq(body, 1, point - 1)
        frac == SubSeq(body, point + 1, Len(body))
        padded == frac \o SubSeq(<<"0", "0", "0", "0">>, 1, 4 - Len(frac))
        magnitude == 10000 * DigitsVal(whole) + DigitsVal(padded)
    IN  IF /\ Cardinality(points) <= 1
           /\ Len(whole) + Len(frac) >= 1
           /\ Len(frac) <= 4
           /\ \A i \in 1..Len(body) : i \in points \/ body[i] \in DigitChars
        THEN IF signed /\ Head(str) = "-" THEN -magnitude ELSE magnitude
        ELSE Null

\* value.lower() in ("na", "n/a", "-", "")
MissingTokens == {<<"n", "a">>, <<"n", "/", "a">>, <<"-">>, <<>>}

\* abs(value) < 0.5
RESCALE_BELOW == 5000

\* lines 169-172 with <= for <
RescaleInclusive(v) ==
    IF Abs(v) <= RESCALE_BELOW THEN v * 100 ELSE v

\* lines 169-172: rescale a decimal fraction; round(value, 4) leaves a value
\* that is a multiple of 0.0001 as it is
Rescale(v) ==
    IF Abs(v) < RESCALE_BELOW THEN v * 100 ELSE v

normalize_percent(value) ==
    CASE value.t \in {"none", "nan"} -> Null
      [] value.t = "str" ->
            LET text == Strip(Remove(Strip(value.s), "%"))
            IN  IF text = <<>> \/ Lower(text) \in MissingTokens
                THEN Null
                ELSE IF ParseFloat(text) = Null THEN Null
                     ELSE Rescale(ParseFloat(text))
      [] value.t = "num" -> Rescale(value.n)
      [] value.t = "int" -> Rescale(value.n * 10000)
      [] OTHER -> Null

\* bounds of the values normalize_percent is called on: every multiple of
\* 0.0001 up to NormFineMax, and every multiple of 0.25 up to NormQuarters / 4
NormFineMax == 6000
NormQuarters == 41

NormNumbers ==
    {k \in -NormFineMax..NormFineMax : TRUE}
        \cup {2500 * q : q \in -NormQuarters..NormQuarters}

NormStrings ==
    {<<"3", ".", "1", "3", "%">>, <<"N", "A">>, <<"N", "/", "A">>, <<"-">>, <<>>,
     <<" ", "0", ".", "0", "3", "1", "3", " ">>, <<"a", "b", "c">>,
     <<"-", "0", ".", "2", "5">>, <<"1", "0">>}

NormInputs ==
    {PyNone, PyNaN, PyOther} \cup {PyNum(k) : k \in NormNumbers}
        \cup {PyStr(str) : str \in NormStrings}

NormStart ==
    /\ norm_result = Null
    /\ pc_norm = "call"

NormalizeCall ==
    /\ pc_norm = "call"
    /\ norm_result' = normalize_percent(norm_value)
    /\ pc_norm' = "returned"
    /\ UNCHANGED norm_value
    /\ UNCHANGED outsideNorm

NextNorm == NormalizeCall

-----------------------------------------------------------------------------
(* src/utils.py: matches_longer_run_ff *)

\* the characters \s matches
Whitespace == {" ", "\t", "\n"}

\* re.search of first, then any number of gap characters, then second
SearchWithGap(str, first, gap, second) ==
    \E i \in Occurrences(str, first) :
        \E j \in Occurrences(str, second) :
            /\ j >= i + Len(first)
            /\ \A k \in (i + Len(first))..(j - 1) : str[k] \in gap

\* LONGER_RUN_KEYWORDS: longer[\s-]*run, long[\s-]*run, longrun
HasLongerRunKeyword(str) ==
    \/ SearchWithGap(str, <<"l", "o", "n", "g", "e", "r">>, Whitespace \cup {"-"}, <<"r", "u", "n">>)
    \/ SearchWithGap(str, <<"l", "o", "n", "g">>, Whitespace \cup {"-"}, <<"r", "u", "n">>)
    \/ Contains(str, <<"l", "o", "n", "g", "r", "u", "n">>)

\* FEDERAL_FUNDS_KEYWORDS: federal\s*funds, fed\s*funds, fftr, target\s*rate
HasFederalFundsKeyword(str) ==
    \/ SearchWithGap(str, <<"f", "e", "d", "e", "r", "a", "l">>, Whitespace, <<"f", "u", "n", "d", "s">>)
    \/ SearchWithGap(str, <<"f", "e", "d">>, Whitespace, <<"f", "u", "n", "d", "s">>)
    \/ Contains(str, <<"f", "f", "t", "r">>)
    \/ SearchWithGap(str, <<"t", "a", "r", "g", "e", "t">>, Whitespace, <<"r", "a", "t", "e">>)

\* a longer-run keyword with a federal-funds keyword somewhere after it
matches_longer_run_then_ff(text) ==
    \E i \in 1..Len(text) :
        /\ HasLongerRunKeyword(Lower(SubSeq(text, 1, i)))
        /\ HasFederalFundsKeyword(Lower(SubSeq(text, i + 1, Len(text))))

matches_longer_run_ff(text) ==
    HasLongerRunKeyword(Lower(text)) /\ HasFederalFundsKeyword(Lower(text))

-----------------------------------------------------------------------------
(* src/extract_xlsx.py *)

\* A sheet is [readable, columns, rows]: whether pd.read_excel returns, the
\* column labels in order, and the rows as functions from label to cell.
\* The cells of text columns are strings (NaNCell when missing), the cells of
\* value columns are Python values, the cells of a question column are
\* sequences of characters.
NaNCell == "nan"

\* str.lower() on the labels and cell texts of the sheets below
LowerStr(str) ==
    CASE str = "Combined" -> "combined"
      [] str = "Dealer" -> "dealer"
      [] str = "Primary Dealers" -> "primary dealers"
      [] str = "Median" -> "median"
      [] str = "Longer Run" -> "longer run"
      [] str = "FFTR_LongerRun" -> "fftr_longerrun"
      [] str = "Value_Tag" -> "value_tag"
      [] OTHER -> str

\* str.strip() on the same
StripStr(str) ==
    CASE str = " p75 " -> "p75"
      [] str = "dealer " -> "dealer"
      [] OTHER -> str

LONGER_RUN_VALUE_TAGS ==
    <<"fftr_modalpe_longerrun", "fftr_longerrun", "fed_funds_longerrun",
      "federal_funds_longerrun">>

\* the value tags of the sheets below that the regex
\* fftr.*longer|longer.*fftr|fed.*fund.*longer finds a match in
PartialTagMatch(tag) ==
    tag \in {"fftr_modalpe_longerrun", "fftr_longerrun", "fed_funds_longerrun",
             "federal_funds_longerrun", "fftr_modal_longer"}

\* AGGREGATION_MAP.get(agg_type), "" for None
AGGREGATION_MAP(agg_type) ==
    CASE agg_type \in {"pctl25", "pctl_25", "p25", "25th"} -> "pctl25"
      [] agg_type \in {"pctl50", "pctl_50", "p50", "median", "50th"} -> "pctl50"
      [] agg_type \in {"pctl75", "pctl_75", "p75", "75th"} -> "pctl75"
      [] OTHER -> ""

\* PANEL_MAP.get(panel_lower, panel)
PANEL_MAP(panel_lower, panel) ==
    CASE panel_lower \in {"combined", "all", "total"} -> PANEL_COMBINED
      [] panel_lower \in {"dealer", "spd", "primary_dealer"} -> PANEL_SPD
      [] panel_lower \in {"participant", "smp", "market_participant"} -> PANEL_SMP
      [] OTHER -> panel

\* find_column: the column whose lower-cased label is the first of
\* possible_names found among the labels ("" for None); of two columns with
\* the same lower-cased label the later one is found
find_column(df, possible_names) ==
    LET found == {k \in 1..Len(possible_names) :
                    \E c \in 1..Len(df.columns) :
                        LowerStr(df.columns[c]) = possible_names[k]}
    IN  IF found = {} THEN ""
        ELSE LET name == possible_names[CHOOSE k \in found : \A m \in found : k <= m]
                 cols == {c \in 1..Len(df.columns) : LowerStr(df.columns[c]) = name}
             IN  df.columns[CHOOSE c \in cols : \A m \in cols : m <= c]

\* the first non-None normalised value among the rows (at positions idx of
\* df.rows, in row order) whose aggregation maps to pctl_key
FirstPercentile(df, idx, agg_col, value_col, pctl_key) ==
    LET hits == {i \in idx :
                    /\ AGGREGATION_MAP(StripStr(LowerStr(df.rows[i][agg_col]))) = pctl_key
                    /\ normalize_percent(df.rows[i][value_col]) # Null}
    IN  IF hits = {} THEN Null
        ELSE normalize_percent(df.rows[CHOOSE i \in hits : \A j \in hits : i <= j][value_col])

\* lr_df[panel_col].dropna().unique(): the labels in order of first appearance
UniquePanels(df, idx, panel_col) ==
    LET firsts == {i \in idx :
                    /\ df.rows[i][panel_col] # NaNCell
                    /\ \A j \in idx : j < i => df.rows[j][panel_col] # df.rows[i][panel_col]}
        order == SubSeqAt([i \in 1..Len(df.rows) |-> i], firsts)
    IN  [k \in 1..Len(order) |-> df.rows[order[k]][panel_col]]

parse_long_format(df, filepath, file_url, survey_date) ==
    LET value_tag_col == find_column(df, <<"value_tag", "valuetag", "tag", "concept", "variable">>)
        agg_col == find_column(df, <<"aggregation", "agg", "statistic", "stat", "aggregation_type">>)
        value_col == find_column(df, <<"aggregation_value", "value", "result", "estimate", "number">>)
        panel_col == find_column(df, <<"panel_type", "panel", "respondent_type", "survey_type">>)
        all_rows == 1..Len(df.rows)
        exact == {i \in all_rows :
                    \E t \in 1..Len(LONGER_RUN_VALUE_TAGS) :
                        LowerStr(df.rows[i][value_tag_col]) = LONGER_RUN_VALUE_TAGS[t]}
        lr_mask == IF exact # {} THEN exact
                   ELSE {i \in all_rows : PartialTagMatch(LowerStr(df.rows[i][value_tag_col]))}
        panels == IF panel_col # "" THEN UniquePanels(df, lr_mask, panel_col)
                  ELSE <<"Combined">>
        panel_df(panel) == IF panel_col # ""
                           THEN {i \in lr_mask : df.rows[i][panel_col] = panel}
                           ELSE lr_mask
        pctl(panel, key) == FirstPercentile(df, panel_df(panel), agg_col, value_col, key)
        found == {k \in 1..Len(panels) :
                    \E key \in {"pctl25", "pctl50", "pctl75"} : pctl(panels[k], key) # Null}
        record(panel) ==
            ExtractedPercentile(survey_date, PANEL_MAP(StripStr(LowerStr(panel)), panel),
                                pctl(panel, "pctl25"), pctl(panel, "pctl50"),
                                pctl(panel, "pctl75"), SOURCE_XLSX, file_url, filepath,
                                Null, NoNotes)
    IN  IF value_tag_col = "" \/ agg_col = "" \/ value_col = "" THEN <<>>
        ELSE IF lr_mask = {} THEN <<>>
        ELSE [k \in 1..Cardinality(found) |-> record(SubSeqAt(panels, found)[k])]

\* the column labels of the sheets below that contain "25" or "p25",
\* "median", "50" or "p50", and "75" or "p75"
PercentileOfLabel(label) ==
    CASE label \in {"25th", "pctl25", "p25"} -> "pctl25"
      [] label \in {"median", "50th", "pctl50", "p50"} -> "pctl50"
      [] label \in {"75th", "pctl75", "p75"} -> "pctl75"
      [] OTHER -> ""

\* pctl_cols[key] after the loop over df.columns: the last column of the key
PercentileColumn(df, key) ==
    LET cols == {c \in 1..Len(df.columns) : PercentileOfLabel(LowerStr(df.columns[c])) = key}
    IN  IF cols = {} THEN "" ELSE df.columns[CHOOSE c \in cols : \A m \in cols : m <= c]

parse_wide_format(df, filepath, file_url, survey_date) ==
    LET value_tag_col == find_column(df, <<"value_tag", "valuetag", "tag", "concept">>)
        question_text_col == find_column(df, <<"question_text", "description", "question", "label">>)
        all_rows == 1..Len(df.rows)
        tagged(t) == {i \in all_rows :
                        LowerStr(df.rows[i][value_tag_col]) = LONGER_RUN_VALUE_TAGS[t]}
        tags == IF value_tag_col = "" THEN {}
                ELSE {t \in 1..Len(LONGER_RUN_VALUE_TAGS) : tagged(t) # {}}
        by_tag == IF tags = {} THEN {}
                  ELSE tagged(CHOOSE t \in tags : \A u \in tags : t <= u)
        by_text == IF question_text_col = "" THEN {}
                   ELSE {i \in all_rows : matches_longer_run_ff(df.rows[i][question_text_col])}
        lr_df == IF by_tag # {} THEN by_tag ELSE by_text
        value(i, key) == IF PercentileColumn(df, key) = "" THEN Null
                         ELSE normalize_percent(df.rows[i][PercentileColumn(df, key)])
        found == {i \in lr_df : \E key \in {"pctl25", "pctl50", "pctl75"} : value(i, key) # Null}
        order == SubSeqAt([i \in 1..Len(df.rows) |-> i], found)
    IN  [k \in 1..Len(order) |->
            ExtractedPercentile(survey_date, PANEL_COMBINED, value(order[k], "pctl25"),
                                value(order[k], "pctl50"), value(order[k], "pctl75"),
                                SOURCE_XLSX, file_url, filepath, Null, NoNotes)]

\* _create_empty_result
CreateEmptyResult(filepath, file_url, survey_date, notes) ==
    ExtractedPercentile(survey_date, PANEL_COMBINED, Null, Null, Null, SOURCE_XLSX,
                        file_url, filepath, Null, notes)

\* lines 307-313: the long format's records or, if none, the wide format's
LongOrWide(long_results, wide_results) ==
    IF long_results # <<>> THEN long_results ELSE wide_results

\* lines 292-317, one sheet: nothing for a sheet that cannot be read or is
\* empty
SheetResults(df, filepath, file_url, survey_date) ==
    IF ~df.readable \/ df.rows = <<>> THEN <<>>
    ELSE LongOrWide(parse_long_format(df, filepath, file_url, survey_date),
                    parse_wide_format(df, filepath, file_url, survey_date))

RECURSIVE AllSheetResults(_, _, _, _)
AllSheetResults(sheets, filepath, file_url, survey_date) ==
    IF sheets = <<>> THEN <<>>
    ELSE SheetResults(Head(sheets), filepath, file_url, survey_date)
            \o AllSheetResults(Tail(sheets), filepath, file_url, survey_date)

\* lines 320-323: a Combined record takes the panel of a single-panel file
OverridePanel(result, survey_type) ==
    IF survey_type \in {PANEL_SPD, PANEL_SMP} /\ result.panel = PANEL_COMBINED
    THEN [result EXCEPT !.panel = survey_type]
    ELSE result

OverridePanels(all_results, survey_type) ==
    [i \in 1..Len(all_results) |-> OverridePanel(all_results[i], survey_type)]

\* lines 326-332: the first record of each (survey_date, panel)
UniqueResults(all_results) ==
    SubSeqAt(all_results, {i \in 1..Len(all_results) :
        \A j \in 1..(i - 1) :
            <<all_results[j].survey_date, all_results[j].panel>>
                # <<all_results[i].survey_date, all_results[i].panel>>})

\* lines 287-289 and 334-339 with an empty list returned when nothing was found
ResultsOrNothing(sheets, unique_results, filepath, file_url, survey_date) ==
    unique_results

\* lines 287-289 and 334-339: the records found, or one record without values
ResultsOrEmptyResult(sheets, unique_results, filepath, file_url, survey_date) ==
    IF sheets = <<>>
    THEN <<CreateEmptyResult(filepath, file_url, survey_date, "no_sheets_found")>>
    ELSE IF unique_results = <<>>
    THEN <<CreateEmptyResult(filepath, file_url, survey_date, "question_not_present")>>
    ELSE unique_results

\* extract_from_xlsx; sheets is empty when get_sheet_names returns [] (a file
\* that load_workbook cannot open included).  Every statement that can raise
\* on these inputs is inside the per-sheet try, so the handler of lines
\* 341-343 is never entered.
extract_from_xlsx(sheets, filepath, file_url, survey_date, survey_type) ==
    ResultsOrEmptyResult(
        sheets,
        UniqueResults(OverridePanels(
            AllSheetResults(sheets, filepath, file_url, survey_date), survey_type)),
        filepath, file_url, survey_date)

\* Sheets that pd.read_excel can return.  A row maps each column label to
\* the cell under it.
LongRow(tag, agg, value) ==
    ("Value_Tag" :> tag) @@ ("aggregation" :> agg) @@ ("aggregation_value" :> value)

PanelRow(tag, agg, value, panel) ==
    ("value_tag" :> tag) @@ ("aggregation" :> agg) @@ ("aggregation_value" :> value)
        @@ ("panel_type" :> panel)

WideRow(question, p25, p50, p75) ==
    ("question_text" :> question) @@ ("25th" :> p25) @@ ("Median" :> p50)
        @@ ("75th" :> p75)

\* long format without a panel column: 3.0, 3.13 and 3.25 percent
SheetLong ==
    [readable |-> TRUE,
     columns |-> <<"Value_Tag", "aggregation", "aggregation_value">>,
     rows |-> <<LongRow("ffr_2024", "median", PyNum(52500)),
                LongRow("FFTR_LongerRun", "pctl25", PyNum(30000)),
                LongRow("FFTR_LongerRun", "Median", PyNum(31300)),
                LongRow("FFTR_LongerRun", " p75 ", PyNum(32500)),
                LongRow("FFTR_LongerRun", "median", PyNum(99900))>>]

\* long format with the labels Dealer, smp and Combined in the panel column
SheetLongPanels ==
    [readable |-> TRUE,
     columns |-> <<"value_tag", "aggregation", "aggregation_value", "panel_type">>,
     rows |-> <<PanelRow("fftr_modalpe_longerrun", "median", PyNum(300), "Dealer"),
                PanelRow("fftr_modalpe_longerrun", "p25", PyNum(27500), "Dealer"),
                PanelRow("fftr_modalpe_longerrun", "median",
                         PyStr(<<"3", ".", "1", "3", "%">>), "smp"),
                PanelRow("fftr_modalpe_longerrun", "median", PyNum(30000), "Combined"),
                PanelRow("fftr_modalpe_longerrun", "median", PyNaN, "dealer ")>>]

\* long format with a panel label outside PANEL_MAP and a row without label
SheetLongOtherLabel ==
    [readable |-> TRUE,
     columns |-> <<"value_tag", "aggregation", "aggregation_value", "panel_type">>,
     rows |-> <<PanelRow("fed_funds_longerrun", "median", PyNum(28800), "Primary Dealers"),
                PanelRow("fed_funds_longerrun", "p75", PyNum(30000), NaNCell)>>]

\* long format without a longer-run value tag
SheetLongOtherTags ==
    [readable |-> TRUE,
     columns |-> <<"Value_Tag", "aggregation", "aggregation_value">>,
     rows |-> <<LongRow("ffr_2024", "median", PyNum(52500)),
                LongRow(NaNCell, "pctl25", PyNum(10000))>>]

\* long format whose longer-run cells hold no number
SheetLongNoValues ==
    [readable |-> TRUE,
     columns |-> <<"Value_Tag", "aggregation", "aggregation_value">>,
     rows |-> <<LongRow("federal_funds_longerrun", "median", PyNaN),
                LongRow("federal_funds_longerrun", "pctl25", PyStr(<<"N", "A">>)),
                LongRow("federal_funds_longerrun", NaNCell, PyNum(30000)),
                LongRow("federal_funds_longerrun", "mean", PyNum(30000))>>]

\* long format whose tag only the regular expression finds
SheetLongPartialTag ==
    [readable |-> TRUE,
     columns |-> <<"Value_Tag", "aggregation", "aggregation_value">>,
     rows |-> <<LongRow("fftr_modal_longer", "75th", PyNum(32500))>>]

\* wide format: one row per question, one column per percentile
SheetWide ==
    [readable |-> TRUE,
     columns |-> <<"question_text", "25th", "Median", "75th">>,
     rows |-> <<WideRow(<<"R", "e", "a", "l", " ", "G", "D", "P", " ", "g", "r", "o", "w", "t", "h">>, PyNum(20000), PyNum(22500), PyNum(25000)),
                WideRow(<<"L", "o", "n", "g", "e", "r", " ", "R", "u", "n", " ", "t", "a", "r", "g", "e", "t", " ", "f", "e", "d", "e", "r", "a", "l", " ", "f", "u", "n", "d", "s", " ", "r", "a", "t", "e">>, PyNum(250), PyNum(27500), PyNaN),
                WideRow(<<"f", "e", "d", " ", "f", "u", "n", "d", "s", ",", " ", "l", "o", "n", "g", "-", "r", "u", "n">>, PyNaN, PyNone, PyStr(<<"-">>)),
                WideRow(<<"n", "a", "n">>, PyNum(10000), PyNum(10000), PyNum(10000))>>]

\* a sheet without a recognised column
SheetNotes ==
    [readable |-> TRUE,
     columns |-> <<"a", "b">>,
     rows |-> <<("a" :> "x") @@ ("b" :> "y")>>]

\* a sheet without rows
SheetEmpty == [readable |-> TRUE, columns |-> <<"Value_Tag">>, rows |-> <<>>]

\* a sheet on which pd.read_excel raises
SheetUnreadable == [readable |-> FALSE, columns |-> <<>>, rows |-> <<>>]

SampleSheets ==
    <<SheetLong, SheetLongPanels, SheetLongOtherLabel, SheetLongOtherTags,
      SheetLongNoValues, SheetLongPartialTag, SheetWide, SheetNotes, SheetEmpty,
      SheetUnreadable>>

\* a workbook has at most MaxSheets sheets
MaxSheets == 2

Workbooks(n) ==
    {[i \in 1..Len(ix) |-> SampleSheets[ix[i]]] :
        ix \in UNION {[1..k -> 1..Len(SampleSheets)] : k \in 0..n}}

XlDocs ==
    {[filepath |-> "data_raw/jan-2024-data.xlsx",
      file_url |-> "https://www.newyorkfed.org/jan-2024-data.xlsx",
      survey_date |-> 20240101],
     [filepath |-> "data_raw/jul-2017-smp-data.xlsx",
      file_url |-> "data_raw/jul-2017-smp-data.xlsx",
      survey_date |-> 20170701]}

\* the survey_type arguments: LinkInfo.survey_type and the default "merged"
XlSurveyTypes == {PANEL_SPD, PANEL_SMP, PANEL_MERGED, "merged"}

XlStart ==
    /\ xl_results = <<>>
    /\ pc_xl = "call"

ExtractFromXlsx ==
    /\ pc_xl = "call"
    /\ xl_results' = extract_from_xlsx(xl_workbook, xl_doc.filepath, xl_doc.file_url,
                                       xl_doc.survey_date, xl_survey_type)
    /\ pc_xl' = "returned"
    /\ UNCHANGED <<xl_doc, xl_workbook, xl_survey_type>>
    /\ UNCHANGED outsideXl

NextXlsx == ExtractFromXlsx

-----------------------------------------------------------------------------
(* scripts/03_extract_pdf_llm.py: determine_panel *)

\* datetime(2014, 1, 1) and datetime(2016, 11, 1)
SMP_LAUNCH == 20140101
MERGED_FROM == 20161101

HasSpdMarker(fn) ==
    Contains(fn, <<"s", "p", "d">>) \/ Contains(fn, <<"d", "e", "a", "l", "e", "r">>)

HasSmpMarker(fn) ==
    \/ Contains(fn, <<"s", "m", "p">>)
    \/ Contains(fn, <<"p", "a", "r", "t", "i", "c", "i", "p", "a", "n", "t">>)
    \/ StartsWith(fn, <<"m", "p", "-">>)
    \/ Contains(fn, <<"-", "m", "p", "_">>)
    \/ StartsWith(fn, <<"m", "p", "_">>)
    \/ Contains(fn, <<"-", "m", "p", ".", "p", "d", "f">>)
    \/ Contains(fn, <<"-", "r", "e", "s", "u", "l", "t", "s", "-", "m", "p">>)

\* determine_panel without the rule of lines 79-82
determine_panel_no_mid_era(filename, survey_date) ==
    LET fn == Lower(filename)
    IN  IF HasSpdMarker(fn) THEN PANEL_SPD
        ELSE IF HasSmpMarker(fn) THEN PANEL_SMP
        ELSE IF survey_date # NoDate /\ survey_date < SMP_LAUNCH THEN PANEL_SPD
        ELSE PANEL_COMBINED

determine_panel(filename, survey_date) ==
    LET fn == Lower(filename)
    IN  IF HasSpdMarker(fn) THEN PANEL_SPD
        ELSE IF HasSmpMarker(fn) THEN PANEL_SMP
        ELSE IF survey_date # NoDate /\ survey_date < SMP_LAUNCH THEN PANEL_SPD
        ELSE IF survey_date # NoDate /\ survey_date < MERGED_FROM THEN PANEL_SPD
        ELSE PANEL_COMBINED

\* names of PDF files in data_raw
\* SPD_Jan2015.pdf
FN_SPD_JAN2015 == <<"S", "P", "D", "_", "J", "a", "n", "2", "0", "1", "5", ".", "p", "d", "f">>
\* mp_jan2015.pdf
FN_MP_JAN2015 == <<"m", "p", "_", "j", "a", "n", "2", "0", "1", "5", ".", "p", "d", "f">>
\* dec2013.pdf
FN_DEC2013 == <<"d", "e", "c", "2", "0", "1", "3", ".", "p", "d", "f">>
\* jun2015.pdf
FN_JUN2015 == <<"j", "u", "n", "2", "0", "1", "5", ".", "p", "d", "f">>
\* jul2017.pdf
FN_JUL2017 == <<"j", "u", "l", "2", "0", "1", "7", ".", "p", "d", "f">>
\* total-mar2015.pdf
FN_TOTAL_MAR2015 == <<"t", "o", "t", "a", "l", "-", "m", "a", "r", "2", "0", "1", "5", ".", "p", "d", "f">>
\* results.pdf
FN_RESULTS == <<"r", "e", "s", "u", "l", "t", "s", ".", "p", "d", "f">>
\* jan2017-results-mp.pdf
FN_JAN2017_RESULTS_MP == <<"j", "a", "n", "2", "0", "1", "7", "-", "r", "e", "s", "u", "l", "t", "s", "-", "m", "p", ".", "p", "d", "f">>
\* dealer-smp-2018.pdf
FN_DEALER_SMP_2018 == <<"d", "e", "a", "l", "e", "r", "-", "s", "m", "p", "-", "2", "0", "1", "8", ".", "p", "d", "f">>
\* Participant2014.pdf
FN_PARTICIPANT2014 == <<"P", "a", "r", "t", "i", "c", "i", "p", "a", "n", "t", "2", "0", "1", "4", ".", "p", "d", "f">>
\* temp_2016.pdf
FN_TEMP_2016 == <<"t", "e", "m", "p", "_", "2", "0", "1", "6", ".", "p", "d", "f">>
\* combined-sep2014.pdf
FN_COMBINED_SEP2014 == <<"c", "o", "m", "b", "i", "n", "e", "d", "-", "s", "e", "p", "2", "0", "1", "4", ".", "p", "d", "f">>
\* all-oct2013.pdf
FN_ALL_OCT2013 == <<"a", "l", "l", "-", "o", "c", "t", "2", "0", "1", "3", ".", "p", "d", "f">>

PdfNames ==
    {FN_SPD_JAN2015, FN_MP_JAN2015, FN_DEC2013,
     FN_JUN2015, FN_JUL2017, FN_TOTAL_MAR2015,
     FN_RESULTS, FN_JAN2017_RESULTS_MP, FN_DEALER_SMP_2018,
     FN_PARTICIPANT2014, FN_TEMP_2016, FN_COMBINED_SEP2014,
     FN_ALL_OCT2013}

\* survey dates on both sides of the two cut-over dates
PanelDates ==
    {NoDate, 20130601, 20131231, 20140101, 20150601, 20161031, 20161101, 20200301}

PanelStart ==
    /\ dp_result = ""
    /\ pc_dp = "call"

DeterminePanelCall ==
    /\ pc_dp = "call"
    /\ dp_result' = determine_panel(dp_filename, dp_date)
    /\ pc_dp' = "returned"
    /\ UNCHANGED <<dp_filename, dp_date>>
    /\ UNCHANGED outsidePanel

NextPanel == DeterminePanelCall

-----------------------------------------------------------------------------
(* scripts/02_extract_xlsx.py *)

\* datetime(year, month, 1) as a number YYYYMMDD
FirstOfMonth(year, month) == year * 10000 + month * 100 + 1

\* datetime.now(): the day the program runs
Now == 20261031

\* the alternatives of the regular expression, which are keys of MONTH_MAP
\* with the values 1 to 12
MonthAbbreviations ==
    <<<<"j", "a", "n">>,
      <<"f", "e", "b">>,
      <<"m", "a", "r">>,
      <<"a", "p", "r">>,
      <<"m", "a", "y">>,
      <<"j", "u", "n">>,
      <<"j", "u", "l">>,
      <<"a", "u", "g">>,
      <<"s", "e", "p">>,
      <<"o", "c", "t">>,
      <<"n", "o", "v">>,
      <<"d", "e", "c">>>>

LowercaseLetters ==
    {"a", "b", "c", "d", "e", "f", "g", "h", "i", "j", "k", "l", "m", "n", "o",
     "p", "q", "r", "s", "t", "u", "v", "w", "x", "y", "z"}

\* the positions where \d{4} can start after a month name at position i and
\* any number of characters outside a-z
YearPositions(fn, i) ==
    {j \in (i + 3)..(Len(fn) - 3) :
        /\ \A k \in (i + 3)..(j - 1) : fn[k] \notin LowercaseLetters
        /\ \A k \in j..(j + 3) : fn[k] \in DigitChars}

\* get_survey_date_from_filename: the leftmost month name that a year can
\* follow, and the last such year ([^a-z]* is greedy); Null when
\* datetime() raises ValueError for the year 0
get_survey_date_from_filename(filename) ==
    LET fn == Lower(filename)
        month_at(i) == {m \in 1..12 : i + 2 <= Len(fn) /\ SubSeq(fn, i, i + 2) = MonthAbbreviations[m]}
        starts == {i \in 1..Len(fn) : month_at(i) # {} /\ YearPositions(fn, i) # {}}
        start == CHOOSE i \in starts : \A k \in starts : i <= k
        month == CHOOSE m \in month_at(start) : TRUE
        at == CHOOSE j \in YearPositions(fn, start) : \A k \in YearPositions(fn, start) : k <= j
        year == DigitsVal(SubSeq(fn, at, at + 3))
    IN  IF starts = {} THEN Now
        ELSE IF year = 0 THEN Null
        ELSE FirstOfMonth(year, month)

\* the names of the spreadsheets, in the order sorted() gives them:
\* Dec_2016.xlsx, data.xlsx, jan-0000-data.xlsx (for whose year datetime()
\* raises ValueError), jan-2015-data.xlsx, jul-2017-smp-data.xlsx
XlsxNamesSorted ==
    <<<<"D", "e", "c", "_", "2", "0", "1", "6", ".", "x", "l", "s", "x">>,
      <<"d", "a", "t", "a", ".", "x", "l", "s", "x">>,
      <<"j", "a", "n", "-", "0", "0", "0", "0", "-", "d", "a", "t", "a", ".", "x", "l", "s", "x">>,
      <<"j", "a", "n", "-", "2", "0", "1", "5", "-", "d", "a", "t", "a", ".", "x", "l", "s", "x">>,
      <<"j", "u", "l", "-", "2", "0", "1", "7", "-", "s", "m", "p", "-", "d", "a", "t", "a", ".", "x", "l", "s", "x">>>>

\* data_dir holds at most MaxXlsxFiles spreadsheets
MaxXlsxFiles == 2

\* the directories: some of the names, each with a workbook of at most one sheet
XlsxDirs ==
    UNION {[names -> Workbooks(1)] :
            names \in {ns \in SUBSET (1..Len(XlsxNamesSorted)) : Cardinality(ns) <= MaxXlsxFiles}}

Step2Begin ==
    /\ s2_xlsx_files = <<>>
    /\ s2_next = 1
    /\ s2_all_results = <<>>
    /\ s2_csv = <<>>
    /\ pc_s2 = "start"

\* main, lines 42-55: xlsx_files = sorted(data_dir.glob("*.xlsx"))
Step2Start ==
    /\ pc_s2 = "start"
    /\ s2_xlsx_files' = SubSeqAt([i \in 1..Len(XlsxNamesSorted) |-> i], DOMAIN s2_dir)
    /\ pc_s2' = "loop"
    /\ UNCHANGED <<s2_dir, s2_next, s2_all_results, s2_csv>>
    /\ UNCHANGED outsideStep2

\* main, lines 57-63: one pass of the loop over xlsx_files; the file's path
\* is passed as file_url too, and survey_type keeps its default
Step2ProcessFile ==
    /\ pc_s2 = "loop"
    /\ s2_next <= Len(s2_xlsx_files)
    /\ LET file == s2_xlsx_files[s2_next]
           filepath == XlsxNamesSorted[file]
           survey_date == get_survey_date_from_filename(filepath)
       IN  IF survey_date = Null
           THEN /\ pc_s2' = "raised"
                /\ UNCHANGED <<s2_next, s2_all_results>>
           ELSE /\ s2_all_results' = s2_all_results \o
                        extract_from_xlsx(s2_dir[file], filepath, filepath, survey_date, "merged")
                /\ s2_next' = s2_next + 1
                /\ pc_s2' = "loop"
    /\ UNCHANGED <<s2_dir, s2_xlsx_files, s2_csv>>
    /\ UNCHANGED outsideStep2

\* main, lines 65-77: one row per record of all_results
Step2WriteCsv ==
    /\ pc_s2 = "loop"
    /\ s2_next > Len(s2_xlsx_files)
    /\ s2_csv' = s2_all_results
    /\ pc_s2' = "done"
    /\ UNCHANGED <<s2_dir, s2_xlsx_files, s2_next, s2_all_results>>
    /\ UNCHANGED outsideStep2

NextStep2 == Step2Start \/ Step2ProcessFile \/ Step2WriteCsv

-----------------------------------------------------------------------------
(* scripts/03_extract_pdf_llm.py: the loop over the PDF files *)

SOURCE == SOURCE_PDF_LLM

PyInt(k) == [t |-> "int", n |-> k, s |-> <<>>]

\* None in a field that otherwise holds a sequence of characters
NoText == <<"<None>">>

\* A parsed response.  json is the type of the JSON value; for an object,
\* each field holds the value of its key: a missing "survey_month" is the
\* default "", a missing "reason" or "error" is NoNotes like a null one, and
\* the other missing keys are PyNone, as result.get() returns them.
LlmObject(found, month, year, p25, p50, p75, page, reason, error) ==
    [json |-> "object", found |-> found, survey_month |-> month, survey_year |-> year,
     pctl25 |-> p25, pctl50 |-> p50, pctl75 |-> p75, page |-> page,
     reason |-> reason, error |-> error]

\* lines 166-170: the dictionaries returned from the exception handlers
LlmErrorResult(error) ==
    LlmObject(FALSE, <<>>, PyNone, PyNone, PyNone, PyNone, PyNone, NoNotes, error)

\* What the inference service does with one request: it raises (timeout,
\* rate limit, refusal of the file), or answers with a text that json.loads
\* rejects, or with a text that is a JSON value.
LlmFound ==
    [kind |-> "json",
     value |-> LlmObject(TRUE, <<"J", "u", "l", "y">>, PyInt(2017), PyNum(25000),
                         PyNum(27500), PyNum(30000), PyInt(4), NoNotes, NoNotes)]

LlmNotFound ==
    [kind |-> "json",
     value |-> LlmObject(FALSE, <<"M", "a", "r", "c", "h">>, PyInt(2015), PyNone, PyNone, PyNone,
                         PyNone, "question not present", NoNotes)]

LlmOutOfRange ==
    [kind |-> "json",
     value |-> LlmObject(TRUE, <<"j", "a", "n">>, PyInt(2015), PyNum(-5000), PyInt(3),
                         PyNum(120000), PyInt(2), NoNotes, NoNotes)]

LlmNoDate ==
    [kind |-> "json",
     value |-> LlmObject(TRUE, <<>>, PyNone, PyNone, PyNum(27500), PyNone, PyNone,
                         NoNotes, NoNotes)]

LlmYearOutOfRange ==
    [kind |-> "json",
     value |-> LlmObject(FALSE, <<"S", "e", "p", "t">>, PyInt(2040), PyNone, PyNone, PyNone,
                         PyNone, NoNotes, NoNotes)]

LlmNullMonth ==
    [kind |-> "json",
     value |-> LlmObject(TRUE, NoText, PyInt(2017), PyNum(25000), PyNum(27500),
                         PyNum(30000), PyInt(4), NoNotes, NoNotes)]

LlmStringPercentile ==
    [kind |-> "json",
     value |-> LlmObject(TRUE, <<"J", "u", "l", "y">>, PyInt(2017), PyNone,
                         PyStr(<<"2", ".", "7", "5">>), PyNone, PyInt(4), NoNotes, NoNotes)]

LlmArray == [kind |-> "json", value |-> [json |-> "array"]]

LlmNotJson == [kind |-> "not_json", value |-> [json |-> "none"]]

LlmRaises == [kind |-> "raises", value |-> [json |-> "none"]]

\* percentiles written as fractions of one: 0.025, 0.0275, 0.03
LlmDecimalFraction ==
    [kind |-> "json",
     value |-> LlmObject(TRUE, <<"M", "a", "r", "c", "h">>, PyInt(2015), PyNum(250),
                         PyNum(275), PyNum(300), PyInt(7), NoNotes, NoNotes)]

\* the request is refused with HTTP status 429
LlmRateLimited == [kind |-> "rate_limit", value |-> [json |-> "none"]]

LlmOutcomes ==
    <<LlmFound, LlmNotFound, LlmOutOfRange, LlmNoDate, LlmYearOutOfRange,
      LlmNullMonth, LlmStringPercentile, LlmArray, LlmNotJson, LlmRaises,
      LlmDecimalFraction, LlmRateLimited>>

\* str(e)[:100] of openai.RateLimitError
RATE_LIMIT_ERROR == "Error code: 429 - rate_limit_exceeded"

\* call_llm_with_pdf, given what the service does with the request
call_llm_with_pdf(outcome) ==
    CASE outcome.kind = "json" -> outcome.value
      [] outcome.kind = "not_json" -> LlmErrorResult("json_parse_error")
      [] outcome.kind = "rate_limit" -> LlmErrorResult(RATE_LIMIT_ERROR)
      [] OTHER -> LlmErrorResult("Request timed out.")

\* MONTHS, in the order of the dictionary
MONTHS ==
    <<<<<<"j", "a", "n", "u", "a", "r", "y">>, 1>>,
      <<<<"f", "e", "b", "r", "u", "a", "r", "y">>, 2>>,
      <<<<"m", "a", "r", "c", "h">>, 3>>,
      <<<<"a", "p", "r", "i", "l">>, 4>>,
      <<<<"m", "a", "y">>, 5>>,
      <<<<"j", "u", "n", "e">>, 6>>,
      <<<<"j", "u", "l", "y">>, 7>>,
      <<<<"a", "u", "g", "u", "s", "t">>, 8>>,
      <<<<"s", "e", "p", "t", "e", "m", "b", "e", "r">>, 9>>,
      <<<<"o", "c", "t", "o", "b", "e", "r">>, 10>>,
      <<<<"n", "o", "v", "e", "m", "b", "e", "r">>, 11>>,
      <<<<"d", "e", "c", "e", "m", "b", "e", "r">>, 12>>,
      <<<<"j", "a", "n">>, 1>>,
      <<<<"f", "e", "b">>, 2>>,
      <<<<"m", "a", "r">>, 3>>,
      <<<<"a", "p", "r">>, 4>>,
      <<<<"j", "u", "n">>, 6>>,
      <<<<"j", "u", "l">>, 7>>,
      <<<<"a", "u", "g">>, 8>>,
      <<<<"s", "e", "p">>, 9>>,
      <<<<"s", "e", "p", "t">>, 9>>,
      <<<<"o", "c", "t">>, 10>>,
      <<<<"n", "o", "v">>, 11>>,
      <<<<"d", "e", "c">>, 12>>>>

\* MONTHS.get(month_str), 0 for None
MonthNumber(month_str) ==
    LET hits == {k \in 1..Len(MONTHS) : MONTHS[k][1] = month_str}
    IN  IF hits = {} THEN 0 ELSE MONTHS[CHOOSE k \in hits : TRUE][2]

\* bool(value)
Truthy(value) ==
    CASE value.t \in {"int", "num"} -> value.n # 0
      [] value.t = "str" -> value.s # <<>>
      [] value.t = "none" -> FALSE
      [] OTHER -> TRUE

\* re.search(r'20\d{2}', filename) as a number, Null for no match
YearInFilename(filename) ==
    LET hits == {i \in Occurrences(filename, <<"2", "0">>) :
                    /\ i + 3 <= Len(filename)
                    /\ filename[i + 2] \in DigitChars
                    /\ filename[i + 3] \in DigitChars}
    IN  IF hits = {} THEN Null
        ELSE DigitsVal(SubSeq(filename, CHOOSE i \in hits : \A k \in hits : i <= k,
                              (CHOOSE i \in hits : \A k \in hits : i <= k) + 3))

\* parse_survey_date for a result that is a dictionary with a str month
parse_survey_date(result, filename) ==
    LET month_str == Lower(result.survey_month)
        year == result.survey_year
        month == MonthNumber(month_str)
        fn == Lower(filename)
        named == {k \in 1..Len(MONTHS) : Contains(fn, MONTHS[k][1])}
    IN  IF /\ month_str # <<>>
           /\ Truthy(year)
           /\ month # 0
           /\ year.t = "int"
           /\ 2010 <= year.n /\ year.n <= 2030
        THEN FirstOfMonth(year.n, month)
        ELSE IF YearInFilename(filename) = Null THEN Now
        ELSE IF named # {}
        THEN FirstOfMonth(YearInFilename(filename),
                          MONTHS[CHOOSE k \in named : \A m \in named : k <= m][2])
        ELSE FirstOfMonth(YearInFilename(filename), 1)

\* survey_date.strftime("%Y-%m") and survey_date[:7] of a row, as YYYYMM
YearMonth(date) == date \div 100

\* get_xlsx_dates
get_xlsx_dates(csv_file) ==
    IF csv_file.exists
    THEN {YearMonth(csv_file.rows[i].survey_date) : i \in 1..Len(csv_file.rows)}
    ELSE {}

\* lines 233-239: a percentile outside 0..10 is dropped
SanityChecked(value) ==
    LET number == IF value.t = "int" THEN value.n * 10000 ELSE value.n
    IN  IF value.t = "none" THEN Null
        ELSE IF number < 0 \/ number > 100000 THEN Null
        ELSE number

\* line 241
ResultNotes(result) ==
    IF result.found THEN NoNotes
    ELSE IF result.reason \notin {NoNotes, ""} THEN result.reason
    ELSE result.error

\* process_pdf with a PDF whose response says "not found" treated as skipped
process_pdf_skips_not_found(filepath, result, xlsx_dates) ==
    IF result.json # "object" \/ result.survey_month = NoText
    THEN [status |-> "raised"]
    ELSE IF YearMonth(parse_survey_date(result, filepath)) \in xlsx_dates \/ ~result.found
    THEN [status |-> "skipped"]
    ELSE IF \E v \in {result.pctl25, result.pctl50, result.pctl75} : v.t \notin {"none", "int", "num"}
    THEN [status |-> "raised"]
    ELSE [status |-> "record",
          record |-> ExtractedPercentile(
              parse_survey_date(result, filepath),
              determine_panel(filepath, parse_survey_date(result, filepath)),
              SanityChecked(result.pctl25), SanityChecked(result.pctl50),
              SanityChecked(result.pctl75), SOURCE, filepath, filepath,
              IF result.page.t = "int" THEN result.page.n ELSE Null,
              ResultNotes(result))]

\* process_pdf after the call: result is what call_llm_with_pdf returned.
\* It raises AttributeError when result is not a dictionary or its
\* survey_month is null, and TypeError when a percentile of a PDF that is
\* not skipped is not a number; it returns None for a skipped PDF.
process_pdf(filepath, result, xlsx_dates) ==
    IF result.json # "object" \/ result.survey_month = NoText
    THEN [status |-> "raised"]
    ELSE IF YearMonth(parse_survey_date(result, filepath)) \in xlsx_dates
    THEN [status |-> "skipped"]
    ELSE IF \E v \in {result.pctl25, result.pctl50, result.pctl75} : v.t \notin {"none", "int", "num"}
    THEN [status |-> "raised"]
    ELSE [status |-> "record",
          record |-> ExtractedPercentile(
              parse_survey_date(result, filepath),
              determine_panel(filepath, parse_survey_date(result, filepath)),
              SanityChecked(result.pctl25), SanityChecked(result.pctl50),
              SanityChecked(result.pctl75), SOURCE, filepath, filepath,
              IF result.page.t = "int" THEN result.page.n ELSE Null,
              ResultNotes(result))]

\* the names of the PDF files, in the order sorted() gives them:
\* SPD_Jan2015.pdf, jul2017.pdf, mp_jan2015.pdf, results.pdf, temp_2016.pdf,
\* total-mar2015.pdf
PdfNamesSorted ==
    <<FN_SPD_JAN2015, FN_JUL2017, FN_MP_JAN2015, FN_RESULTS, FN_TEMP_2016,
      FN_TOTAL_MAR2015>>

\* data_dir holds at most MaxPdfFiles PDF files
MaxPdfFiles == 2

PdfDirs == {ns \in SUBSET (1..Len(PdfNamesSorted)) : Cardinality(ns) <= MaxPdfFiles}

\* rows that step 2 writes: one with data and one without
XlsxRowJan2015 ==
    ExtractedPercentile(20150101, PANEL_COMBINED, 32500, 35000, 37500, SOURCE_XLSX,
                        "jan-2015-data.xlsx", "jan-2015-data.xlsx", Null, NoNotes)

XlsxRowJul2017 ==
    ExtractedPercentile(20170701, PANEL_COMBINED, Null, Null, Null, SOURCE_XLSX,
                        "jul-2017-data.xlsx", "jul-2017-data.xlsx", Null,
                        "question_not_present")

\* xlsx_extracts.csv as step 3 finds it
XlsxCsvs ==
    {[exists |-> FALSE, rows |-> <<>>],
     [exists |-> TRUE, rows |-> <<>>],
     [exists |-> TRUE, rows |-> <<XlsxRowJan2015>>],
     [exists |-> TRUE, rows |-> <<XlsxRowJul2017>>],
     [exists |-> TRUE, rows |-> <<XlsxRowJan2015, XlsxRowJul2017>>]}

\* the --limit option: None or 1
Limits == {Null, 1}

Step3Envs ==
    [api_key : BOOLEAN, xlsx_csv : XlsxCsvs, pdfs : PdfDirs, limit : Limits]

\* before process_pdf was called
NoCall == [status |-> "none", result |-> [json |-> "none"]]

Step3Begin ==
    /\ s3_xlsx_dates = {}
    /\ s3_pdf_files = <<>>
    /\ s3_next = 1
    /\ s3_results = <<>>
    /\ s3_skipped = 0
    /\ s3_calls = 0
    /\ s3_last = NoCall
    /\ s3_csv = <<>>
    /\ pc_s3 = "start"

\* main, lines 263-292: exit without the API key; else read the dates of the
\* spreadsheet rows and list the PDF files
Step3Start ==
    /\ pc_s3 = "start"
    /\ IF ~s3_env.api_key
       THEN /\ pc_s3' = "exit1"
            /\ UNCHANGED <<s3_xlsx_dates, s3_pdf_files>>
       ELSE /\ s3_xlsx_dates' = get_xlsx_dates(s3_env.xlsx_csv)
            /\ s3_pdf_files' =
                 LET sorted == SubSeqAt(PdfNamesSorted, s3_env.pdfs)
                 IN  IF s3_env.limit # Null /\ s3_env.limit # 0
                     THEN SubSeq(sorted, 1, IF s3_env.limit < Len(sorted)
                                            THEN s3_env.limit ELSE Len(sorted))
                     ELSE sorted
            /\ pc_s3' = "loop"
    /\ UNCHANGED <<s3_env, s3_next, s3_results, s3_skipped, s3_calls, s3_last, s3_csv>>
    /\ UNCHANGED outsideStep3

\* main, lines 294-300: one pass of the loop over pdf_files.  process_pdf
\* sends the request first; an exception it raises ends the program.
Step3ProcessPdf ==
    /\ pc_s3 = "loop"
    /\ s3_next <= Len(s3_pdf_files)
    /\ \E o \in 1..Len(LlmOutcomes) :
        LET result == process_pdf(s3_pdf_files[s3_next],
                                  call_llm_with_pdf(LlmOutcomes[o]), s3_xlsx_dates)
        IN  /\ s3_calls' = s3_calls + 1
            /\ s3_last' = [status |-> result.status,
                           result |-> call_llm_with_pdf(LlmOutcomes[o])]
            /\ CASE result.status = "raised" ->
                        /\ pc_s3' = "raised"
                        /\ UNCHANGED <<s3_next, s3_results, s3_skipped>>
                 [] result.status = "skipped" ->
                        /\ s3_skipped' = s3_skipped + 1
                        /\ s3_next' = s3_next + 1
                        /\ UNCHANGED <<s3_results, pc_s3>>
                 [] OTHER ->
                        /\ s3_results' = Append(s3_results, result.record)
                        /\ s3_next' = s3_next + 1
                        /\ UNCHANGED <<s3_skipped, pc_s3>>
    /\ UNCHANGED <<s3_env, s3_xlsx_dates, s3_pdf_files, s3_csv>>
    /\ UNCHANGED outsideStep3

\* main, lines 302-313: one row per record of results
Step3WriteCsv ==
    /\ pc_s3 = "loop"
    /\ s3_next > Len(s3_pdf_files)
    /\ s3_csv' = s3_results
    /\ pc_s3' = "done"
    /\ UNCHANGED <<s3_env, s3_xlsx_dates, s3_pdf_files, s3_next, s3_results,
                   s3_skipped, s3_calls, s3_last>>
    /\ UNCHANGED outsideStep3

NextStep3 == Step3Start \/ Step3ProcessPdf \/ Step3WriteCsv

-----------------------------------------------------------------------------
(* src/utils.py: matches_longer_run_ff called on one text *)

\* Wordings of the longer-run part of a question: five that hold a keyword
\* of LONGER_RUN_KEYWORDS and four that hold none (the last is empty).
LongerRunWordings ==
    <<[kw |-> TRUE, text |-> <<"L", "o", "n", "g", "e", "r", " ", "r", "u", "n">>],
      [kw |-> TRUE, text |-> <<"L", "O", "N", "G", "E", "R", "-", "R", "U", "N">>],
      [kw |-> TRUE, text |-> <<"l", "o", "n", "g", " ", "\n", "r", "u", "n">>],
      [kw |-> TRUE, text |-> <<"L", "o", "n", "g", "R", "u", "n">>],
      [kw |-> TRUE, text |-> <<"l", "o", "n", "g", "e", "r", "-", " ", "r", "u", "n">>],
      [kw |-> FALSE, text |-> <<"l", "o", "n", "g", "e", "r", " ", "t", "e", "r", "m">>],
      [kw |-> FALSE, text |-> <<"r", "u", "n", " ", "l", "o", "n", "g", "e", "r">>],
      [kw |-> FALSE, text |-> <<"l", "o", "n", "g", "_", "r", "u", "n">>],
      [kw |-> FALSE, text |-> <<>>]>>

\* Wordings of the federal-funds part: five that hold a keyword of
\* FEDERAL_FUNDS_KEYWORDS and four that hold none.
FederalFundsWordings ==
    <<[kw |-> TRUE, text |-> <<"f", "e", "d", "e", "r", "a", "l", " ", "f", "u", "n", "d", "s">>],
      [kw |-> TRUE, text |-> <<"F", "E", "D", "\t", "F", "U", "N", "D", "S">>],
      [kw |-> TRUE, text |-> <<"F", "F", "T", "R">>],
      [kw |-> TRUE, text |-> <<"T", "a", "r", "g", "e", "t", "r", "a", "t", "e">>],
      [kw |-> TRUE, text |-> <<"F", "e", "d", "e", "r", "a", "l", "F", "u", "n", "d", "s">>],
      [kw |-> FALSE, text |-> <<"f", "u", "n", "d", "s", " ", "f", "e", "d", "e", "r", "a", "l">>],
      [kw |-> FALSE, text |-> <<"f", "e", "d", "e", "r", "a", "l", "-", "f", "u", "n", "d", "s">>],
      [kw |-> FALSE, text |-> <<"t", "a", "r", "g", "e", "t", " ", "r", "a", "n", "g", "e">>],
      [kw |-> FALSE, text |-> <<>>]>>

\* what stands between the two parts: nothing, a blank, a line of a question
Fillers ==
    <<<<>>,
      <<" ">>,
      <<" ", "e", "x", "p", "e", "c", "t", "e", "d", ".", "\n", "3", "b", ":", " ">>>>

\* the text with the two wordings in the given order
ComposeText(lr, ff, filler, lr_first) ==
    IF lr_first
    THEN LongerRunWordings[lr].text \o Fillers[filler] \o FederalFundsWordings[ff].text
    ELSE FederalFundsWordings[ff].text \o Fillers[filler] \o LongerRunWordings[lr].text

MatchTexts(fillers) ==
    {ComposeText(lr, ff, filler, lr_first) :
        lr \in 1..Len(LongerRunWordings), ff \in 1..Len(FederalFundsWordings),
        filler \in 1..fillers, lr_first \in BOOLEAN}

MatchStart ==
    /\ mr_result = FALSE
    /\ pc_mr = "call"

MatchCall ==
    /\ pc_mr = "call"
    /\ mr_result' = matches_longer_run_ff(mr_text)
    /\ pc_mr' = "returned"
    /\ UNCHANGED mr_text
    /\ UNCHANGED outsideMatch

NextMatch == MatchCall

-----------------------------------------------------------------------------
(* src/extract_pdf.py: extract_from_pdf *)

\* A PDF is described by what the readers return on it: the number of pages
\* extract_text_with_pdfplumber yields (0 when it fails), the sections
\* find_longer_run_section cuts out, the tables
\* extract_tables_with_pdfplumber yields, and the text ocr_page reads on
\* each page.  A section, table or OCR text is a candidate
\* [page, matches, parsed]: its page, whether matches_longer_run_ff holds
\* on it, and what parse_percentiles_from_text or
\* parse_percentiles_from_table returns on it.
NoPercentiles == [key \in PercentileKeys |-> Null]

\* the percentiles a parser returns: the fields in mask hold values that
\* tell the candidates apart (2.51, 2.76, 3.01 for tag 1)
SlotBase(key) ==
    CASE key = "pctl25" -> 25000
      [] key = "pctl50" -> 27500
      [] OTHER -> 30000

Parsed(tag, mask) ==
    [key \in PercentileKeys |-> IF key \in mask THEN SlotBase(key) + 100 * tag ELSE Null]

\* which fields a parser finds in a section, in a table, in an OCR text
Masks == {{}, {"pctl25", "pctl50"}, {"pctl50", "pctl75"}, PercentileKeys}
TableMasks == {{"pctl50", "pctl75"}, PercentileKeys}
OcrMasks == {{"pctl25", "pctl50"}, PercentileKeys}

MaxPages == 2
MaxSections == 2
MaxTables == 1

Candidate(page, matches, parsed) == [page |-> page, matches |-> matches, parsed |-> parsed]

\* the sections of a file with n pages: at most one a page, in page order
SectionLists(n) ==
    UNION {{[i \in 1..Cardinality(ps) |->
                Candidate(SubSeqAt([k \in 1..n |-> k], ps)[i], TRUE,
                          Parsed(SubSeqAt([k \in 1..n |-> k], ps)[i], mask[i]))] :
              mask \in [1..Cardinality(ps) -> Masks]} :
           ps \in {q \in SUBSET (1..n) : Cardinality(q) <= MaxSections}}

\* a table, on some page of the file
TablesOn(page, tag) ==
    {Candidate(page, FALSE, NoPercentiles)} \cup
    {Candidate(page, TRUE, Parsed(tag, mask)) : mask \in TableMasks}

TableLists(n) ==
    IF n = 0 THEN {<<>>}
    ELSE UNION {[1..k -> TablesOn(n, 3)] : k \in 0..MaxTables}

\* the text ocr_page reads on a page ("" when it fails)
OcrTexts(page) ==
    {Candidate(page, FALSE, NoPercentiles)} \cup
    {Candidate(page, TRUE, Parsed(4 + page, mask)) : mask \in OcrMasks}

OcrLists(n) == {f \in [1..n -> UNION {OcrTexts(p) : p \in 1..n}] : \A p \in 1..n : f[p].page = p}

PdfSurveyTypes == {PANEL_SPD, "merged"}

\* the files of up to pages pages
PdfDocs(pages) ==
    UNION {[npages : {n}, sections : SectionLists(n), tables : TableLists(n),
            ocr : OcrLists(n), use_ocr : BOOLEAN, OCR_AVAILABLE : BOOLEAN,
            survey_type : PdfSurveyTypes,
            filepath : {"Mar2015.pdf"}, survey_date : {20150301}] : n \in 0..pages}

AllFilled(pctls) == \A key \in PercentileKeys : pctls[key] # Null

\* the update of lines 324-327 with the guard left out
FillEverySlot(pctls, parsed) ==
    [key \in PercentileKeys |-> IF parsed[key] # Null THEN parsed[key] ELSE pctls[key]]

\* lines 324-327 (and 345-348, 370-373, 391-394): a value found goes into
\* its slot when the slot is empty
FillEmptySlots(pctls, parsed) ==
    [key \in PercentileKeys |->
        IF parsed[key] # Null /\ pctls[key] = Null THEN parsed[key] ELSE pctls[key]]

\* pdf_page after the same loop over the keys
PageAfterFill(pctls, parsed, page, old_page) ==
    IF \E key \in PercentileKeys : parsed[key] # Null /\ pctls[key] = Null
    THEN page ELSE old_page

\* lines 360-366: the pages OCR starts with, in sorted order
OcrFirstPages(doc) ==
    IF doc.sections # <<>>
    THEN [i \in 1..Len(doc.sections) |-> doc.sections[i].page]
    ELSE [i \in 1..(IF doc.npages < 5 THEN doc.npages ELSE 5) |-> i]

\* lines 380-385: the pages left, ten at most
OCR_EXPANSION == 10

OcrMorePages(doc) ==
    LET first == {OcrFirstPages(doc)[i] : i \in 1..Len(OcrFirstPages(doc))}
        remaining == SubSeqAt([k \in 1..doc.npages |-> k], (1..doc.npages) \ first)
    IN  SubSeq(remaining, 1, IF Len(remaining) < OCR_EXPANSION THEN Len(remaining)
                              ELSE OCR_EXPANSION)

\* lines 404-408
PdfPanel(survey_type) ==
    CASE survey_type = PANEL_SPD -> PANEL_SPD
      [] survey_type = PANEL_SMP -> PANEL_SMP
      [] OTHER -> PANEL_COMBINED

\* the notes with the second marker added whenever no slot is filled
PdfNotesMarkerAlways(pctls, sections) ==
    IF \E key \in PercentileKeys : pctls[key] # Null THEN NoNotes
    ELSE "question_not_present; no_matching_sections_found"

\* lines 410-414
PdfNotes(pctls, sections) ==
    IF \E key \in PercentileKeys : pctls[key] # Null THEN NoNotes
    ELSE IF sections = <<>> THEN "question_not_present; no_matching_sections_found"
    ELSE "question_not_present"

PdfBegin ==
    /\ pd_pctls = NoPercentiles
    /\ pd_page = Null
    /\ pd_source = SOURCE_PDF_TEXT
    /\ pd_queue = <<>>
    /\ pd_calls = [tables |-> FALSE, ocr |-> {}]
    /\ pd_results = <<>>
    /\ pc_pd = "start"

\* lines 305-318: read the text, cut the sections, start the loop over them
PdfFindSections ==
    /\ pc_pd = "start"
    /\ pd_queue' = pd_doc.sections
    /\ pc_pd' = "text"
    /\ UNCHANGED <<pd_doc, pd_pctls, pd_page, pd_source, pd_calls, pd_results>>
    /\ UNCHANGED outsidePdf

\* one pass of the loop that is running: over the sections (lines 320-330),
\* the tables (336-351), the first OCR pages (367-377) or the pages left
\* (387-397).  A page is sent to ocr_page when its turn comes.
PdfVisitCandidate ==
    /\ pc_pd \in {"text", "tables", "ocr", "ocr_more"}
    /\ pd_queue # <<>>
    /\ LET c == Head(pd_queue)
           filled == IF c.matches THEN FillEmptySlots(pd_pctls, c.parsed) ELSE pd_pctls
       IN  /\ pd_pctls' = filled
           /\ pd_page' = IF c.matches
                         THEN PageAfterFill(pd_pctls, c.parsed, c.page, pd_page)
                         ELSE pd_page
           /\ pd_queue' = IF c.matches /\ AllFilled(filled) THEN <<>> ELSE Tail(pd_queue)
           /\ pd_calls' = IF pc_pd \in {"ocr", "ocr_more"}
                          THEN [pd_calls EXCEPT !.ocr = @ \cup {c.page}]
                          ELSE pd_calls
    /\ UNCHANGED <<pd_doc, pd_source, pd_results, pc_pd>>
    /\ UNCHANGED outsidePdf

\* lines 332-334: the tables are read when a slot is still empty
PdfToTables ==
    /\ pc_pd = "text"
    /\ pd_queue = <<>>
    /\ pc_pd' = "tables"
    /\ IF ~AllFilled(pd_pctls)
       THEN /\ pd_queue' = pd_doc.tables
            /\ pd_calls' = [pd_calls EXCEPT !.tables = TRUE]
       ELSE UNCHANGED <<pd_queue, pd_calls>>
    /\ UNCHANGED <<pd_doc, pd_pctls, pd_page, pd_source, pd_results>>
    /\ UNCHANGED outsidePdf

\* lines 353-366: OCR starts when it is asked for, installed and a slot is
\* still empty
PdfToOcr ==
    /\ pc_pd = "tables"
    /\ pd_queue = <<>>
    /\ IF pd_doc.use_ocr /\ pd_doc.OCR_AVAILABLE /\ ~AllFilled(pd_pctls)
       THEN /\ pd_source' = SOURCE_PDF_OCR
            /\ pd_queue' = [i \in 1..Len(OcrFirstPages(pd_doc)) |->
                               pd_doc.ocr[OcrFirstPages(pd_doc)[i]]]
            /\ pc_pd' = "ocr"
       ELSE /\ pc_pd' = "build"
            /\ UNCHANGED <<pd_source, pd_queue>>
    /\ UNCHANGED <<pd_doc, pd_pctls, pd_page, pd_calls, pd_results>>
    /\ UNCHANGED outsidePdf

\* lines 379-385: the pages left are read when a slot is still empty
PdfToOcrMore ==
    /\ pc_pd = "ocr"
    /\ pd_queue = <<>>
    /\ IF ~AllFilled(pd_pctls)
       THEN /\ pd_queue' = [i \in 1..Len(OcrMorePages(pd_doc)) |->
                               pd_doc.ocr[OcrMorePages(pd_doc)[i]]]
            /\ pc_pd' = "ocr_more"
       ELSE /\ pc_pd' = "build"
            /\ UNCHANGED pd_queue
    /\ UNCHANGED <<pd_doc, pd_pctls, pd_page, pd_source, pd_calls, pd_results>>
    /\ UNCHANGED outsidePdf

\* line 397: the loop over the pages left is over
PdfOcrDone ==
    /\ pc_pd = "ocr_more"
    /\ pd_queue = <<>>
    /\ pc_pd' = "build"
    /\ UNCHANGED <<pd_doc, pd_pctls, pd_page, pd_source, pd_queue, pd_calls, pd_results>>
    /\ UNCHANGED outsidePdf

\* lines 403-436: the record
PdfBuildResult ==
    /\ pc_pd = "build"
    /\ pd_results' =
         <<ExtractedPercentile(pd_doc.survey_date, PdfPanel(pd_doc.survey_type),
                               pd_pctls.pctl25, pd_pctls.pctl50, pd_pctls.pctl75,
                               pd_source, pd_doc.filepath, pd_doc.filepath, pd_page,
                               PdfNotes(pd_pctls, pd_doc.sections))>>
    /\ pc_pd' = "returned"
    /\ UNCHANGED <<pd_doc, pd_pctls, pd_page, pd_source, pd_queue, pd_calls>>
    /\ UNCHANGED outsidePdf

NextPdf ==
    \/ PdfFindSections
    \/ PdfVisitCandidate
    \/ PdfToTables
    \/ PdfToOcr
    \/ PdfToOcrMore
    \/ PdfOcrDone
    \/ PdfBuildResult

-----------------------------------------------------------------------------
(* src/extract_pdf_openai.py: extract_from_pdf_openai *)

\* The response after the code fences are cut off (lines 167-173): a text
\* json.loads rejects, a JSON value that is no object, or an object whose
\* fields hold the values data.get() returns; found is True when missing.
OpenaiObject(found, p25, p50, p75, page, notes) ==
    [json |-> "object", found |-> found, pctl25 |-> p25, pctl50 |-> p50,
     pctl75 |-> p75, page |-> page, notes |-> notes]

\* values of a percentile field: null, 2.75, 15, -0.5, 0, 0.0275, 3, "2.75"
OpenaiPercentiles ==
    <<PyNone, PyNum(27500), PyNum(150000), PyNum(-5000), PyNum(0), PyNum(275),
      PyInt(3), PyStr(<<"2", ".", "7", "5">>)>>

OpenaiResponses(values) ==
    {[kind |-> "json",
      value |-> OpenaiObject(found, OpenaiPercentiles[a], OpenaiPercentiles[b],
                             OpenaiPercentiles[c], page, notes)] :
        found \in BOOLEAN, a \in 1..values, b \in 1..values, c \in 1..values,
        page \in {Null, 4}, notes \in {NoNotes, "question_not_present"}}
    \cup {[kind |-> "json", value |-> [json |-> "array"]],
          [kind |-> "not_json", value |-> [json |-> "none"]],
          [kind |-> "raises", value |-> [json |-> "none"]]}

OpenaiDocs ==
    [api_key : BOOLEAN, filepath : {"Mar2015.pdf"}, file_url : {"Mar2015.pdf"},
     survey_date : {20150301}, survey_type : {PANEL_SPD, PANEL_SMP, "merged"}]

\* lines 184-186: normalize_percent(data.get(key)) if data.get(key) else None
OpenaiPercentile(value) ==
    IF Truthy(value) THEN normalize_percent(value) ELSE Null

\* str(e)[:100] of the exception caught at line 205
OpenaiError(response) ==
    CASE response.kind = "raises" -> "openai_error: Request timed out."
      [] response.kind = "not_json" ->
            "openai_error: Expecting value: line 1 column 1 (char 0)"
      [] OTHER -> "openai_error: 'list' object has no attribute 'get'"

\* lines 111-218
extract_percentiles_with_openai(doc, response) ==
    IF response.kind = "json" /\ response.value.json = "object"
    THEN <<ExtractedPercentile(
              doc.survey_date,
              IF doc.survey_type \in {PANEL_SPD, PANEL_SMP}
              THEN doc.survey_type ELSE PANEL_COMBINED,
              OpenaiPercentile(response.value.pctl25),
              OpenaiPercentile(response.value.pctl50),
              OpenaiPercentile(response.value.pctl75),
              SOURCE_PDF_OPENAI, doc.file_url, doc.filepath, response.value.page,
              IF ~response.value.found THEN response.value.notes ELSE NoNotes)>>
    ELSE <<ExtractedPercentile(doc.survey_date, PANEL_COMBINED, Null, Null, Null,
                               SOURCE_PDF_OPENAI, doc.file_url, doc.filepath, Null,
                               OpenaiError(response))>>

\* lines 239-260
extract_from_pdf_openai(doc, response) ==
    IF ~doc.api_key
    THEN <<ExtractedPercentile(doc.survey_date, PANEL_COMBINED, Null, Null, Null,
                               SOURCE_PDF_OPENAI, doc.file_url, doc.filepath, Null,
                               "openai_api_key_not_set")>>
    ELSE extract_percentiles_with_openai(doc, response)

OpenaiStart ==
    /\ oa_results = <<>>
    /\ pc_oa = "call"

ExtractFromPdfOpenai ==
    /\ pc_oa = "call"
    /\ oa_results' = extract_from_pdf_openai(oa_doc, oa_response)
    /\ pc_oa' = "returned"
    /\ UNCHANGED <<oa_doc, oa_response>>
    /\ UNCHANGED outsideOpenai

NextOpenai == ExtractFromPdfOpenai

-----------------------------------------------------------------------------
(* scripts/sep_02b_extract_pdf_llm.py: dots_to_percentiles *)

\* The keys of longer_run_dots are strings; "2.5" and "2.50" are two keys of
\* one rate level, "n/a" is a key float() rejects.
DotKeys ==
    <<<<"2", ".", "5">>, <<"2", ".", "5", "0">>, <<"2", ".", "7", "5">>, <<"3">>,
      <<"n", "/", "a">>>>

MaxLevels == 3
MaxCount == 2

\* the dictionaries: up to levels keys in any order, up to MaxCount dots each
DotMappings(levels) ==
    UNION {{[i \in 1..k |-> [rate |-> DotKeys[keys[i]], count |-> counts[i]]] :
              keys \in {f \in [1..k -> 1..Len(DotKeys)] :
                            \A i, j \in 1..k : i # j => f[i] # f[j]},
              counts \in [1..k -> 0..MaxCount]} :
           k \in 0..levels}

\* lines 175-183: [rate] * int(count) for each item whose key is a number
RECURSIVE ExpandDots(_)
ExpandDots(dots) ==
    IF dots = <<>> THEN <<>>
    ELSE (IF ParseFloat(Head(dots).rate) = Null THEN <<>>
          ELSE [i \in 1..Head(dots).count |-> ParseFloat(Head(dots).rate)])
         \o ExpandDots(Tail(dots))

\* the values as np.quantile leaves them when it does not order them
KeyOrder(values) == values

\* np.quantile orders the values
SortAscending(values) == StableSortByKey(values, [i \in 1..Len(values) |-> <<values[i]>>])

\* np.quantile(values, j / 4) on ordered values: linear interpolation at
\* position (n - 1) * j / 4.  The division is exact for rate levels that are
\* multiples of 0.0004, as the quarter points of DotKeys are.
Quantile(sorted, j) ==
    LET n == Len(sorted)
        lo == ((n - 1) * j) \div 4
        r == ((n - 1) * j) % 4
    IN  (sorted[lo + 1] * (4 - r) + sorted[IF lo + 2 <= n THEN lo + 2 ELSE n] * r) \div 4

NoDots == [n |-> 0, p25 |-> Null, p50 |-> Null, p75 |-> Null]

\* lines 185-192
QuantileSummary(values) ==
    IF values = <<>> THEN NoDots
    ELSE [n |-> Len(values), p25 |-> Quantile(SortAscending(values), 1),
          p50 |-> Quantile(SortAscending(values), 2),
          p75 |-> Quantile(SortAscending(values), 3)]

dots_to_percentiles(longer_run_dots) ==
    IF longer_run_dots = <<>> THEN NoDots
    ELSE QuantileSummary(ExpandDots(longer_run_dots))

DotsStart ==
    /\ dq_result = NoDots
    /\ pc_dq = "call"

DotsToPercentilesCall ==
    /\ pc_dq = "call"
    /\ dq_result' = dots_to_percentiles(dq_dots)
    /\ pc_dq' = "returned"
    /\ UNCHANGED dq_dots
    /\ UNCHANGED outsideDots

NextDots == DotsToPercentilesCall

-----------------------------------------------------------------------------
(* scripts/sep_02c_combine_extracts.py: main *)

HORIZON_LONGER_RUN == <<"L", "o", "n", "g", "e", "r", " ", "r", "u", "n">>
HORIZON_2022 == <<"2", "0", "2", "2">>

SOURCE_HTML == "html"
SOURCE_SEP_PDF == "sep_pdf"

\* a row of a SEP table; source is NoNotes in a table without that column
SepRow(meeting_date, horizon, n, p25, p50, p75, source) ==
    [meeting_date |-> meeting_date, horizon |-> horizon, n |-> n,
     p25 |-> p25, p50 |-> p50, p75 |-> p75, source |-> source]

\* rows that sep_02_extract_dotplot.py writes to sep_summary.csv
SepHtmlRows ==
    {SepRow(20200610, HORIZON_LONGER_RUN, 16, 22500, 25000, 30000, NoNotes),
     SepRow(20200610, HORIZON_2022, 17, 1250, 1250, 1250, NoNotes),
     SepRow(20200916, HORIZON_LONGER_RUN, 16, 22500, 25000, 27500, NoNotes)}

\* rows that sep_02b_extract_pdf_llm.py writes to sep_pdf_extracts.csv
SepPdfRows ==
    {SepRow(20140319, HORIZON_LONGER_RUN, 16, 37500, 40000, 40000, SOURCE_SEP_PDF),
     SepRow(20150318, HORIZON_LONGER_RUN, Null, Null, Null, Null, SOURCE_SEP_PDF),
     SepRow(20200610, HORIZON_LONGER_RUN, 17, 25000, 25000, 30000, SOURCE_SEP_PDF)}

\* a file that does not exist
NoFile == [exists |-> FALSE, header |-> FALSE, rows |-> <<>>]

\* pd.DataFrame().to_csv(path, index=False): a file without a header line
NoColumns == [exists |-> TRUE, header |-> FALSE, rows |-> <<>>]

\* each table holds at most MaxSepRows rows
MaxSepRows == 2

\* the run is repeated at most MaxRuns times
MaxRuns == 3

\* the tables an extractor writes: one to n of the rows, in any order
SepTables(rows, n) ==
    UNION {{[exists |-> TRUE, header |-> TRUE, rows |-> t] :
               t \in {s \in [1..k -> rows] : \A i, j \in 1..k : i # j => s[i] # s[j]}} :
           k \in 1..n}

\* pd.read_csv gives the horizon column an integer type when every value
\* of it is a number
HorizonIsNumeric(file) ==
    /\ file.rows # <<>>
    /\ \A i \in 1..Len(file.rows) :
          /\ file.rows[i].horizon # <<>>
          /\ \A k \in 1..Len(file.rows[i].horizon) :
                file.rows[i].horizon[k] \in DigitChars

\* lines 28-30 raise: read_csv finds no columns in the file,
\* or the horizon column is numeric and has no .str (AttributeError)
LoadHtmlRaises(file) ==
    file.exists /\ (~file.header \/ HorizonIsNumeric(file))

\* lines 27-35: the rows of sep_summary.csv whose horizon contains "longer",
\* every one of them tagged html
LoadHtml(file) ==
    IF ~file.exists THEN <<>>
    ELSE LET keep == {i \in 1..Len(file.rows) :
                         Contains(Lower(file.rows[i].horizon), <<"l", "o", "n", "g", "e", "r">>)}
             kept == SubSeqAt(file.rows, keep)
         IN  [i \in 1..Len(kept) |-> [kept[i] EXCEPT !.source = SOURCE_HTML]]

\* lines 38-45: the rows of sep_pdf_extracts.csv that have a median
LoadPdf(file) ==
    IF ~file.exists THEN <<>>
    ELSE SubSeqAt(file.rows, {i \in 1..Len(file.rows) : file.rows[i].p50 # Null})

\* lines 68-73: the PDF rows first, the HTML rows after them
ConcatSep(df_pdf, df_html) == df_pdf \o df_html

\* the orders sort_values("meeting_date") can leave the rows in: by date,
\* rows of one date in any order (the default sort is not stable)
DateOrders(df) ==
    {f \in Orderings(Len(df)) :
        \A i, j \in 1..Len(df) : i < j => df[f[i]].meeting_date <= df[f[j]].meeting_date}

\* drop_duplicates(subset=["meeting_date", "horizon"], keep="last")
SepDropDuplicates(df) ==
    SubSeqAt(df, {i \in 1..Len(df) :
        \A j \in (i + 1)..Len(df) :
            <<df[j].meeting_date, df[j].horizon>> # <<df[i].meeting_date, df[i].horizon>>})

SepCombineBegin ==
    /\ sc_backup = NoFile
    /\ sc_first = <<>>
    /\ sc_runs = 0
    /\ pc_sc = "ready"

\* main of sep_02_extract_dotplot.py, lines 193-200: sep_summary.csv is
\* replaced by the summary of the pages, all horizons, without a source
\* column; by an empty frame when no page gave a table
SepExtractHtml ==
    /\ pc_sc # "off"
    /\ sc_summary' \in {NoColumns} \cup SepTables(SepHtmlRows, MaxSepRows)
    /\ sc_first' = <<>>
    /\ sc_runs' = 0
    /\ pc_sc' = "ready"
    /\ UNCHANGED <<sc_pdf_extracts, sc_backup>>
    /\ UNCHANGED outsideSepCombine

\* main of sep_02b_extract_pdf_llm.py, lines 262-279: sep_pdf_extracts.csv
\* is opened with mode "w" and holds one row for each PDF of this run
SepExtractPdf ==
    /\ pc_sc # "off"
    /\ sc_pdf_extracts' \in SepTables(SepPdfRows, MaxSepRows)
    /\ sc_first' = <<>>
    /\ sc_runs' = 0
    /\ pc_sc' = "ready"
    /\ UNCHANGED <<sc_summary, sc_backup>>
    /\ UNCHANGED outsideSepCombine

\* main: one run of the script on the files as they are
SepCombine ==
    /\ pc_sc # "off"
    /\ sc_runs < MaxRuns
    /\ sc_runs' = sc_runs + 1
    /\ IF LoadHtmlRaises(sc_summary)
       THEN /\ pc_sc' = "raised"
            /\ UNCHANGED <<sc_summary, sc_backup, sc_first>>
       ELSE /\ pc_sc' = "ready"
            /\ IF LoadHtml(sc_summary) = <<>> /\ LoadPdf(sc_pdf_extracts) = <<>>
               THEN UNCHANGED <<sc_summary, sc_backup, sc_first>>
               ELSE /\ sc_backup' = IF LoadHtml(sc_summary) # <<>>
                                    THEN [exists |-> TRUE, header |-> TRUE,
                                          rows |-> LoadHtml(sc_summary)]
                                    ELSE sc_backup
                    /\ \E f \in DateOrders(ConcatSep(LoadPdf(sc_pdf_extracts),
                                                     LoadHtml(sc_summary))) :
                          sc_summary' =
                              [exists |-> TRUE, header |-> TRUE,
                               rows |-> SepDropDuplicates(
                                   [i \in DOMAIN f |->
                                       ConcatSep(LoadPdf(sc_pdf_extracts),
                                                 LoadHtml(sc_summary))[f[i]]])]
                    /\ sc_first' = IF sc_runs = 0 THEN sc_summary'.rows ELSE sc_first
    /\ UNCHANGED sc_pdf_extracts
    /\ UNCHANGED outsideSepCombine

NextSepCombine == SepExtractHtml \/ SepExtractPdf \/ SepCombine

-----------------------------------------------------------------------------
(* src/extract_pdf.py: parse_percentiles_from_text *)

\* PERCENTILE_ROW_PATTERNS, in list order. Every pattern is a label, then
\* \s*[:=]?\s*(\d+\.?\d*)\s*%?; the label of the first and the third is 25th
\* or 75th, \s*, and p(?:e?r)?c?t?l?\.? (pctl_word).
PERCENTILE_ROW_PATTERNS ==
    <<[label |-> <<"2", "5", "t", "h">>, pctl_word |-> TRUE, pctl_key |-> "pctl25"],
      [label |-> <<"m", "e", "d", "i", "a", "n">>, pctl_word |-> FALSE, pctl_key |-> "pctl50"],
      [label |-> <<"7", "5", "t", "h">>, pctl_word |-> TRUE, pctl_key |-> "pctl75"],
      [label |-> <<"p", "2", "5">>, pctl_word |-> FALSE, pctl_key |-> "pctl25"],
      [label |-> <<"p", "5", "0">>, pctl_word |-> FALSE, pctl_key |-> "pctl50"],
      [label |-> <<"p", "7", "5">>, pctl_word |-> FALSE, pctl_key |-> "pctl75"]>>

\* the literal w at position i of t
LiteralAt(t, i, w) == i + Len(w) - 1 <= Len(t) /\ SubSeq(t, i, i + Len(w) - 1) = w

\* \s* from position i: the position after the whitespace
RECURSIVE SkipSpace(_, _)
SkipSpace(t, i) ==
    IF i <= Len(t) /\ t[i] \in Whitespace THEN SkipSpace(t, i + 1) ELSE i

\* \d* from position i: the position after the digits
RECURSIVE SkipDigits(_, _)
SkipDigits(t, i) ==
    IF i <= Len(t) /\ t[i] \in DigitChars THEN SkipDigits(t, i + 1) ELSE i

\* c? from position i, for a character that nothing later in the pattern
\* can match in its place
Optional(t, i, chars) == IF i <= Len(t) /\ t[i] \in chars THEN i + 1 ELSE i

\* \s*p(?:e?r)?c?t?l?\.? from position i: the position after it, 0 for no match
PctlWord(t, i) ==
    LET p == SkipSpace(t, i)
        after_r == IF LiteralAt(t, p + 1, <<"e", "r">>) THEN p + 3
                   ELSE IF LiteralAt(t, p + 1, <<"r">>) THEN p + 2
                   ELSE p + 1
    IN  IF ~LiteralAt(t, p, <<"p">>) THEN 0
        ELSE Optional(t, Optional(t, Optional(t, Optional(t, after_r, {"c"}), {"t"}), {"l"}), {"."})

\* \s*[:=]?\s*(\d+\.?\d*) from position i: group 1, <<>> for no match
NumberGroup(t, i) ==
    LET from == SkipSpace(t, Optional(t, SkipSpace(t, i), {":", "="}))
        whole == SkipDigits(t, from)
        to == IF whole <= Len(t) /\ t[whole] = "." THEN SkipDigits(t, whole + 1) ELSE whole
    IN  IF whole = from THEN <<>> ELSE SubSeq(t, from, to - 1)

\* the pattern matched at position i of t: group 1, <<>> for no match
MatchAt(pattern, t, i) ==
    IF ~LiteralAt(t, i, pattern.label) THEN <<>>
    ELSE IF ~pattern.pctl_word THEN NumberGroup(t, i + Len(pattern.label))
    ELSE IF PctlWord(t, i + Len(pattern.label)) = 0 THEN <<>>
    ELSE NumberGroup(t, PctlWord(t, i + Len(pattern.label)))

\* re.search(pattern, text, re.IGNORECASE): group 1 of the leftmost match,
\* <<>> for no match
SearchPattern(pattern, text) ==
    LET hits == {i \in 1..Len(text) : MatchAt(pattern, Lower(text), i) # <<>>}
    IN  IF hits = {} THEN <<>>
        ELSE MatchAt(pattern, Lower(text), CHOOSE i \in hits : \A k \in hits : i <= k)

\* lines 194-201: every pattern that matches assigns its slot
RECURSIVE ApplyPatterns(_, _, _)
ApplyPatterns(patterns, text, result) ==
    IF patterns = <<>> THEN result
    ELSE ApplyPatterns(Tail(patterns), text,
            IF SearchPattern(Head(patterns), text) = <<>> THEN result
            ELSE [result EXCEPT ![Head(patterns).pctl_key] =
                     normalize_percent(PyNum(ParseFloat(SearchPattern(Head(patterns), text))))])

parse_percentiles_from_text(text) ==
    ApplyPatterns(PERCENTILE_ROW_PATTERNS, text, NoPercentiles)

\* the phrases of the text sections
Phrases ==
    <<<<"2", "5", "t", "h", " ", "P", "c", "t", "l", " ", "3", ".", "0", "0">>,
      <<"p", "2", "5", " ", "2", ".", "0", "0">>,
      <<"M", "e", "d", "i", "a", "n", ":", " ", "2", ".", "5", "0">>,
      <<"P", "5", "0", " ", "0", ".", "0", "3">>,
      <<"7", "5", "t", "h", " ", "P", "c", "t", "l", ".", " ", "=", " ", "3", ".", "5", "%">>,
      <<"p", "7", "5", " ", "4">>,
      <<"2", "5", "t", "h", " ", "p", "e", "r", "c", "e", "n", "t", "i", "l", "e", " ", "3", ".", "1", "3">>,
      <<"n", "/", "a">>>>

\* a text section holds at most MaxPhrases phrases
MaxPhrases == 2

\* the phrases of a list joined by single spaces
RECURSIVE JoinPhrases(_)
JoinPhrases(list) ==
    IF list = <<>> THEN <<>>
    ELSE IF Len(list) = 1 THEN Phrases[list[1]]
    ELSE Phrases[list[1]] \o <<" ">> \o JoinPhrases(Tail(list))

SectionTexts(n) ==
    UNION {{JoinPhrases(list) : list \in [1..k -> 1..Len(Phrases)]} : k \in 0..n}

ParseStart ==
    /\ pp_result = NoPercentiles
    /\ pc_pp = "call"

ParsePercentilesCall ==
    /\ pc_pp = "call"
    /\ pp_result' = parse_percentiles_from_text(pp_text)
    /\ pc_pp' = "returned"
    /\ UNCHANGED pp_text
    /\ UNCHANGED outsideParse

NextParse == ParsePercentilesCall

-----------------------------------------------------------------------------
(* src/extract_pdf.py: find_longer_run_section *)

\* the keyword patterns of src/utils.py, each a literal, characters that may
\* repeat after it, and a second literal
LONGER_RUN_KEYWORDS ==
    <<[first |-> <<"l", "o", "n", "g", "e", "r">>, gap |-> Whitespace \cup {"-"},
       second |-> <<"r", "u", "n">>],
      [first |-> <<"l", "o", "n", "g">>, gap |-> Whitespace \cup {"-"},
       second |-> <<"r", "u", "n">>],
      [first |-> <<"l", "o", "n", "g", "r", "u", "n">>, gap |-> {}, second |-> <<>>]>>

FEDERAL_FUNDS_KEYWORDS ==
    <<[first |-> <<"f", "e", "d", "e", "r", "a", "l">>, gap |-> Whitespace,
       second |-> <<"f", "u", "n", "d", "s">>],
      [first |-> <<"f", "e", "d">>, gap |-> Whitespace, second |-> <<"f", "u", "n", "d", "s">>],
      [first |-> <<"f", "f", "t", "r">>, gap |-> {}, second |-> <<>>],
      [first |-> <<"t", "a", "r", "g", "e", "t">>, gap |-> Whitespace,
       second |-> <<"r", "a", "t", "e">>]>>

\* the position after the characters of chars from position i on
RECURSIVE SkipChars(_, _, _)
SkipChars(t, i, chars) ==
    IF i <= Len(t) /\ t[i] \in chars THEN SkipChars(t, i + 1, chars) ELSE i

\* the keyword matched at position i of t: the position after the match, 0
\* for no match
KeywordEnd(t, keyword, i) ==
    IF LiteralAt(t, i, keyword.first)
       /\ LiteralAt(t, SkipChars(t, i + Len(keyword.first), keyword.gap), keyword.second)
    THEN SkipChars(t, i + Len(keyword.first), keyword.gap) + Len(keyword.second)
    ELSE 0

KeywordStarts(t, keyword) == {i \in 1..Len(t) : KeywordEnd(t, keyword, i) # 0}

NoMatch == [start |-> Null, end |-> Null]

\* the match of (lr).*?(ff) that starts leftmost and, from there, ends at
\* the nearest ff: match.start() and match.end(), counted from 0
SearchFrom(t, lr, ff, lr_starts, ff_starts) ==
    LET hits == {i \in lr_starts : \E j \in ff_starts : j >= KeywordEnd(t, lr, i)}
        first_hit == CHOOSE i \in hits : \A k \in hits : i <= k
        after == {j \in ff_starts : j >= KeywordEnd(t, lr, first_hit)}
    IN  IF hits = {} THEN NoMatch
        ELSE [start |-> first_hit - 1,
              end |-> KeywordEnd(t, ff, CHOOSE j \in after : \A k \in after : j <= k) - 1]

\* re.search(f"({lr_pattern}).*?({ff_pattern})", text_lower, re.DOTALL | re.IGNORECASE)
SearchCombined(t, lr, ff) ==
    SearchFrom(t, lr, ff, KeywordStarts(t, lr), KeywordStarts(t, ff))

\* the pairs of patterns in the order of the two loops
KeywordPairs ==
    [k \in 1..(Len(LONGER_RUN_KEYWORDS) * Len(FEDERAL_FUNDS_KEYWORDS)) |->
        [lr |-> LONGER_RUN_KEYWORDS[((k - 1) \div Len(FEDERAL_FUNDS_KEYWORDS)) + 1],
         ff |-> FEDERAL_FUNDS_KEYWORDS[((k - 1) % Len(FEDERAL_FUNDS_KEYWORDS)) + 1]]]

\* lines 167-180: the match of the first pair of patterns that has one
LocatedMatch(text_lower) ==
    LET found == {k \in DOMAIN KeywordPairs :
                     SearchCombined(text_lower, KeywordPairs[k].lr, KeywordPairs[k].ff) # NoMatch}
    IN  IF found = {} THEN NoMatch
        ELSE SearchCombined(text_lower,
                            KeywordPairs[CHOOSE k \in found : \A m \in found : k <= m].lr,
                            KeywordPairs[CHOOSE k \in found : \A m \in found : k <= m].ff)

SECTION_BEFORE == 500
SECTION_AFTER == 1500

\* lines 174-177: the section around a match
SectionAround(page_num, text, match) ==
    LET start == IF match.start - SECTION_BEFORE > 0 THEN match.start - SECTION_BEFORE ELSE 0
        end == IF match.end + SECTION_AFTER < Len(text) THEN match.end + SECTION_AFTER ELSE Len(text)
    IN  [page_num |-> page_num, section |-> SubSeq(text, start + 1, end),
         start |-> start, end |-> end]

\* the sections of the pages from page_num on
RECURSIVE SectionsFrom(_, _)
SectionsFrom(pages, page_num) ==
    IF page_num > Len(pages) THEN <<>>
    ELSE (IF /\ pages[page_num] # <<>>
             /\ matches_longer_run_ff(pages[page_num])
             /\ LocatedMatch(Lower(pages[page_num])) # NoMatch
          THEN <<SectionAround(page_num, pages[page_num], LocatedMatch(Lower(pages[page_num])))>>
          ELSE <<>>)
         \o SectionsFrom(pages, page_num + 1)

find_longer_run_section(pages) == SectionsFrom(pages, 1)

\* text that holds no keyword
Padding(n) == [i \in 1..n |-> "x"]

\* the page texts: a longer-run wording and a federal-funds wording in
\* either order with a line between them, the matching ones also in the
\* middle of a long page, and a page without text
PageTexts ==
    {ComposeText(lr, ff, 3, lr_first) : lr \in {1, 4, 6}, ff \in {1, 3, 8}, lr_first \in BOOLEAN}
    \cup {Padding(SECTION_BEFORE + 1) \o ComposeText(1, 3, 3, lr_first) \o Padding(SECTION_AFTER + 1) :
             lr_first \in BOOLEAN}
    \cup {<<>>}

\* a document has at most MaxTextPages pages
MaxTextPages == 2

PageLists(n) == UNION {[1..k -> PageTexts] : k \in 0..n}

SectionStart ==
    /\ fs_sections = <<>>
    /\ pc_fs = "call"

FindLongerRunSectionCall ==
    /\ pc_fs = "call"
    /\ fs_sections' = find_longer_run_section(fs_pages)
    /\ pc_fs' = "returned"
    /\ UNCHANGED fs_pages
    /\ UNCHANGED outsideSection

NextSection == FindLongerRunSectionCall

-----------------------------------------------------------------------------
(* src/scrape_manifest.py: parse_date_from_url *)

\* MONTH_MAP, in the order of the dictionary
MONTH_MAP ==
    <<[name |-> <<"j", "a", "n">>, month |-> 1],
      [name |-> <<"j", "a", "n", "u", "a", "r", "y">>, month |-> 1],
      [name |-> <<"f", "e", "b">>, month |-> 2],
      [name |-> <<"f", "e", "b", "r", "u", "a", "r", "y">>, month |-> 2],
      [name |-> <<"m", "a", "r">>, month |-> 3],
      [name |-> <<"m", "a", "r", "c", "h">>, month |-> 3],
      [name |-> <<"a", "p", "r">>, month |-> 4],
      [name |-> <<"a", "p", "r", "i", "l">>, month |-> 4],
      [name |-> <<"m", "a", "y">>, month |-> 5],
      [name |-> <<"j", "u", "n">>, month |-> 6],
      [name |-> <<"j", "u", "n", "e">>, month |-> 6],
      [name |-> <<"j", "u", "l">>, month |-> 7],
      [name |-> <<"j", "u", "l", "y">>, month |-> 7],
      [name |-> <<"a", "u", "g">>, month |-> 8],
      [name |-> <<"a", "u", "g", "u", "s", "t">>, month |-> 8],
      [name |-> <<"s", "e", "p">>, month |-> 9],
      [name |-> <<"s", "e", "p", "t">>, month |-> 9],
      [name |-> <<"s", "e", "p", "t", "e", "m", "b", "e", "r">>, month |-> 9],
      [name |-> <<"o", "c", "t">>, month |-> 10],
      [name |-> <<"o", "c", "t", "o", "b", "e", "r">>, month |-> 10],
      [name |-> <<"n", "o", "v">>, month |-> 11],
      [name |-> <<"n", "o", "v", "e", "m", "b", "e", "r">>, month |-> 11],
      [name |-> <<"d", "e", "c">>, month |-> 12],
      [name |-> <<"d", "e", "c", "e", "m", "b", "e", "r">>, month |-> 12]>>

\* the alternatives of the month group of the regular expression, in order
MonthAlternatives ==
    <<<<"j", "a", "n">>, <<"f", "e", "b">>, <<"m", "a", "r">>, <<"a", "p", "r">>, <<"m", "a", "y">>, <<"j", "u", "n">>, <<"j", "u", "l">>, <<"a", "u", "g">>, <<"s", "e", "p">>, <<"s", "e", "p", "t">>, <<"o", "c", "t">>, <<"n", "o", "v">>, <<"d", "e", "c">>>>

\* re.search(r'/(\d{4})/', url_lower): group 1 as a number, Null for no match
YearOfPath(url_lower) ==
    LET hits == {i \in 1..(Len(url_lower) - 5) :
                    /\ url_lower[i] = "/" /\ url_lower[i + 5] = "/"
                    /\ \A k \in (i + 1)..(i + 4) : url_lower[k] \in DigitChars}
    IN  IF hits = {} THEN Null
        ELSE DigitsVal(SubSeq(url_lower, (CHOOSE i \in hits : \A k \in hits : i <= k) + 1,
                              (CHOOSE i \in hits : \A k \in hits : i <= k) + 4))

\* url.split('/')[-1]
LastSegment(url) ==
    LET slashes == {i \in 1..Len(url) : url[i] = "/"}
    IN  IF slashes = {} THEN url
        ELSE SubSeq(url, (CHOOSE i \in slashes : \A k \in slashes : k <= i) + 1, Len(url))

\* lines 118-136: the survey type from the file name and the year
SurveyTypeOf(filename, year) ==
    IF Contains(filename, <<"s", "m", "e">>) THEN PANEL_MERGED
    ELSE IF \/ Contains(filename, <<"s", "p", "d">>)
            \/ Contains(filename, <<"p", "d">>)
            \/ Contains(filename, <<"p", "r", "i", "m", "a", "r", "y">>)
    THEN PANEL_SPD
    ELSE IF \/ Contains(filename, <<"s", "m", "p">>)
            \/ Contains(filename, <<"m", "p">>)
            \/ Contains(filename, <<"p", "a", "r", "t", "i", "c", "i", "p", "a", "n", "t">>)
    THEN PANEL_SMP
    ELSE IF Contains(filename, <<"d", "a", "t", "a">>) /\ year >= 2023 THEN PANEL_MERGED
    ELSE IF year <= 2014
    THEN (IF ~Contains(filename, <<"m", "p", "_">>) /\ ~Contains(filename, <<"m", "p", "-">>)
          THEN PANEL_SPD ELSE PANEL_SMP)
    ELSE NoNotes

\* [^a-z]*(\d{4}) can match from position j
YearFollows(fn, j) ==
    \E k \in j..(Len(fn) - 3) :
        /\ \A q \in j..(k - 1) : fn[q] \notin LowercaseLetters
        /\ \A q \in k..(k + 3) : fn[q] \in DigitChars

\* MONTH_MAP.get(month_str), 0 for None
MonthMapGet(month_str) ==
    LET hits == {k \in 1..Len(MONTH_MAP) : MONTH_MAP[k].name = month_str}
    IN  IF hits = {} THEN 0 ELSE MONTH_MAP[CHOOSE k \in hits : TRUE].month

\* lines 142-147: the month of the leftmost match of the month and year
\* pattern, by its first alternative that matches there; 0 for no match
MonthBeforeYear(fn) ==
    LET alts_at(i) == {a \in 1..Len(MonthAlternatives) :
                          /\ LiteralAt(fn, i, MonthAlternatives[a])
                          /\ YearFollows(fn, i + Len(MonthAlternatives[a]))}
        hits == {i \in 1..Len(fn) : alts_at(i) # {}}
        at == CHOOSE i \in hits : \A k \in hits : i <= k
    IN  IF hits = {} THEN 0
        ELSE MonthMapGet(MonthAlternatives[CHOOSE a \in alts_at(at) : \A b \in alts_at(at) : a <= b])

\* lines 150-154: the month of the first name of MONTH_MAP that the file
\* name contains; 0 for none
MonthByName(fn) ==
    LET hits == {k \in 1..Len(MONTH_MAP) : Contains(fn, MONTH_MAP[k].name)}
    IN  IF hits = {} THEN 0 ELSE MONTH_MAP[CHOOSE k \in hits : \A m \in hits : k <= m].month

NoDateNoType == [date |-> Null, survey_type |-> NoNotes]

\* parse_date_from_url for a URL whose year lies in 1..9999
parse_date_from_url(url) ==
    LET year == YearOfPath(Lower(url))
        filename == Lower(LastSegment(url))
        month == IF MonthBeforeYear(filename) # 0 THEN MonthBeforeYear(filename)
                 ELSE MonthByName(filename)
    IN  IF year = Null THEN NoDateNoType
        ELSE [date |-> IF month # 0 THEN FirstOfMonth(year, month) ELSE Null,
              survey_type |-> SurveyTypeOf(filename, year)]

\* the file names of the links without their extensions
FileStems ==
    <<<<"m", "p", "_", "J", "a", "n", "u", "a", "r", "y", "_", "r", "e", "s", "u", "l", "t">>,
      <<"D", "e", "c", "e", "m", "b", "e", "r", "_", "r", "e", "s", "u", "l", "t">>,
      <<"d", "e", "c", "-", "2", "0", "2", "4", "-", "d", "a", "t", "a">>,
      <<"o", "c", "t", "-", "2", "0", "2", "5", "-", "s", "m", "e", "-", "r", "e", "s", "u", "l", "t", "s">>,
      <<"d", "e", "c", "-", "2", "0", "2", "4", "-", "s", "p", "d", "-", "r", "e", "s", "u", "l", "t", "s">>,
      <<"s", "m", "p", "-", "j", "a", "n", "-", "2", "0", "1", "5">>,
      <<"p", "a", "r", "t", "i", "c", "i", "p", "a", "n", "t", "_", "m", "a", "r">>,
      <<"p", "r", "i", "m", "a", "r", "y", "_", "a", "p", "r">>,
      <<"s", "e", "p", "t", "-", "2", "0", "2", "4", "-", "d", "a", "t", "a">>,
      <<"s", "u", "r", "v", "e", "y">>>>

FileExtensions == <<<<".", "p", "d", "f">>, <<".", "x", "l", "s", "x">>>>

\* the directories of the links: four years and a path without a year
UrlDirectories ==
    <<<<"/", "s", "/", "2", "0", "1", "3", "/">>, <<"/", "s", "/", "2", "0", "1", "4", "/">>,
      <<"/", "s", "/", "2", "0", "1", "5", "/">>, <<"/", "s", "/", "2", "0", "2", "4", "/">>,
      <<"/", "s", "/">>>>

Urls ==
    {UrlDirectories[d] \o FileStems[s] \o FileExtensions[e] :
        d \in DOMAIN UrlDirectories, s \in DOMAIN FileStems, e \in DOMAIN FileExtensions}

UrlStart ==
    /\ pu_result = NoDateNoType
    /\ pc_pu = "call"

ParseDateFromUrlCall ==
    /\ pc_pu = "call"
    /\ pu_result' = parse_date_from_url(pu_url)
    /\ pc_pu' = "returned"
    /\ UNCHANGED pu_url
    /\ UNCHANGED outsideUrl

NextUrl == ParseDateFromUrlCall

-----------------------------------------------------------------------------
(* src/download.py: download_file; src/utils.py: get_local_path;
   src/pipeline.py: process_meeting *)

\* s.split("?")[0]
BeforeQuery(s) ==
    LET marks == {i \in 1..Len(s) : s[i] = "?"}
    IN  IF marks = {} THEN s
        ELSE SubSeq(s, 1, (CHOOSE i \in marks : \A k \in marks : i <= k) - 1)

\* re.search(r'/(\d{4})/', url): group 1, <<>> for no match
YearDirectory(url) ==
    LET hits == {i \in 1..(Len(url) - 5) :
                    /\ url[i] = "/" /\ url[i + 5] = "/"
                    /\ \A k \in (i + 1)..(i + 4) : url[k] \in DigitChars}
    IN  IF hits = {} THEN <<>>
        ELSE SubSeq(url, (CHOOSE i \in hits : \A k \in hits : i <= k) + 1,
                    (CHOOSE i \in hits : \A k \in hits : i <= k) + 4)

\* f"{year}-{name}.{ext}" for name, ext = filename.rsplit(".", 1), and
\* f"{year}-{name}" when there is no extension
WithYear(year, filename) ==
    IF Len(filename) > 0 /\ filename[Len(filename)] = "."
    THEN year \o <<"-">> \o SubSeq(filename, 1, Len(filename) - 1)
    ELSE year \o <<"-">> \o filename

\* get_local_path(url, data_dir), as the name of the file in data_dir
get_local_path(url) ==
    LET filename == BeforeQuery(LastSegment(url))
    IN  IF YearDirectory(url) # <<>> /\ ~Contains(filename, YearDirectory(url))
        THEN WithYear(YearDirectory(url), filename)
        ELSE filename

\* process_meeting, lines 94 and 109: data_dir / Path(link.url).name.split("?")[0]
MeetingLocalPath(url) == BeforeQuery(LastSegment(url))

\* MAX_RETRIES of download.py
DOWNLOAD_MAX_RETRIES == 3

\* download_file is called at most MaxCalls times
MaxCalls == 3

\* the links: names with and without the year of their directory
LinkUrls ==
    {<<"/", "s", "/", "2", "0", "1", "4", "/", "m", "p", "_", "J", "a", "n", "u", "a", "r", "y", "_", "r", "e", "s", "u", "l", "t", ".", "p", "d", "f">>,
     <<"/", "s", "/", "2", "0", "1", "4", "/", "m", "p", "_", "J", "a", "n", "u", "a", "r", "y", "_", "r", "e", "s", "u", "l", "t", ".", "x", "l", "s", "x">>,
     <<"/", "s", "/", "2", "0", "1", "4", "/", "d", "e", "c", "-", "2", "0", "2", "4", "-", "d", "a", "t", "a", ".", "p", "d", "f">>,
     <<"/", "s", "/", "2", "0", "1", "4", "/", "d", "e", "c", "-", "2", "0", "2", "4", "-", "d", "a", "t", "a", ".", "x", "l", "s", "x">>,
     <<"/", "s", "/", "2", "0", "2", "4", "/", "m", "p", "_", "J", "a", "n", "u", "a", "r", "y", "_", "r", "e", "s", "u", "l", "t", ".", "p", "d", "f">>,
     <<"/", "s", "/", "2", "0", "2", "4", "/", "m", "p", "_", "J", "a", "n", "u", "a", "r", "y", "_", "r", "e", "s", "u", "l", "t", ".", "x", "l", "s", "x">>,
     <<"/", "s", "/", "2", "0", "2", "4", "/", "d", "e", "c", "-", "2", "0", "2", "4", "-", "d", "a", "t", "a", ".", "p", "d", "f">>,
     <<"/", "s", "/", "2", "0", "2", "4", "/", "d", "e", "c", "-", "2", "0", "2", "4", "-", "d", "a", "t", "a", ".", "x", "l", "s", "x">>,
     <<"/", "s", "/", "m", "p", "_", "J", "a", "n", "u", "a", "r", "y", "_", "r", "e", "s", "u", "l", "t", ".", "p", "d", "f">>,
     <<"/", "s", "/", "m", "p", "_", "J", "a", "n", "u", "a", "r", "y", "_", "r", "e", "s", "u", "l", "t", ".", "x", "l", "s", "x">>,
     <<"/", "s", "/", "d", "e", "c", "-", "2", "0", "2", "4", "-", "d", "a", "t", "a", ".", "p", "d", "f">>,
     <<"/", "s", "/", "d", "e", "c", "-", "2", "0", "2", "4", "-", "d", "a", "t", "a", ".", "x", "l", "s", "x">>,
     <<"/", "s", "/", "2", "0", "1", "4", "/", "A", "p", "r", "i", "l", "_", "r", "e", "s", "u", "l", "t", ".", "p", "d", "f", "?", "v", "=", "1">>}

\* dest_path.exists()
Exists(files, path) == \E f \in files : f.path = path

\* open(dest_path, "wb") and the chunks written: the file replaced
Written(files, path, content) ==
    {f \in files : f.path # path} \cup {[path |-> path, content |-> content]}

DownloadBegin ==
    /\ dl_files = {}
    /\ dl_force = FALSE
    /\ dl_attempt = 0
    /\ dl_requests = 0
    /\ dl_return = ""
    /\ dl_calls = 0
    /\ dl_full = FALSE
    /\ dl_found = NoText
    /\ pc_dl = "idle"

\* download_meeting_files, lines 164-167, and download_file up to its loop:
\* a file that exists is reported as downloaded unless force is set
DownloadFileCall ==
    /\ pc_dl = "idle"
    /\ dl_calls < MaxCalls
    /\ dl_calls' = dl_calls + 1
    /\ \E force \in BOOLEAN :
          /\ dl_force' = force
          /\ IF Exists(dl_files, get_local_path(dl_url)) /\ ~force
             THEN /\ dl_return' = "True"
                  /\ UNCHANGED <<dl_attempt, pc_dl>>
             ELSE /\ dl_return' = ""
                  /\ dl_attempt' = 1
                  /\ pc_dl' = "attempt"
    /\ dl_requests' = 0
    /\ UNCHANGED <<dl_url, dl_files, dl_full, dl_found>>
    /\ UNCHANGED outsideDownload

\* what one pass of the loop of download_file may meet: the whole body is
\* written; requests.get or raise_for_status raises and the file is not
\* touched; iter_content raises after the file was opened for writing and a
\* part of the body is left in it; the content-length header is not a number
\* and int() raises ValueError, which line 109 does not catch
AttemptOutcomes == {"written", "request_failed", "write_failed", "bad_header"}

\* one pass of the loop of download_file
DownloadAttempt ==
    /\ pc_dl = "attempt"
    /\ dl_requests' = dl_requests + 1
    /\ \E outcome \in AttemptOutcomes :
          /\ dl_files' = CASE outcome = "written" ->
                                Written(dl_files, get_local_path(dl_url), "complete")
                           [] outcome = "write_failed" ->
                                Written(dl_files, get_local_path(dl_url), "partial")
                           [] OTHER -> dl_files
          /\ dl_full' = CASE outcome = "written" -> TRUE
                          [] outcome = "write_failed" -> FALSE
                          [] OTHER -> dl_full
          /\ IF outcome = "written"
             THEN dl_return' = "True" /\ pc_dl' = "idle" /\ UNCHANGED dl_attempt
             ELSE IF outcome = "bad_header"
             THEN dl_return' = "ValueError" /\ pc_dl' = "idle" /\ UNCHANGED dl_attempt
             ELSE IF dl_attempt < DOWNLOAD_MAX_RETRIES
             THEN dl_attempt' = dl_attempt + 1 /\ UNCHANGED <<dl_return, pc_dl>>
             ELSE dl_return' = "False" /\ pc_dl' = "idle" /\ UNCHANGED dl_attempt
    /\ UNCHANGED <<dl_url, dl_force, dl_calls, dl_found>>
    /\ UNCHANGED outsideDownload

\* process_meeting for a meeting with this one link: the file is handed to
\* its extractor when it exists at the path process_meeting computes
ProcessMeeting ==
    /\ pc_dl = "idle"
    /\ dl_found' = IF Exists(dl_files, MeetingLocalPath(dl_url))
                   THEN MeetingLocalPath(dl_url) ELSE NoText
    /\ pc_dl' = "processed"
    /\ UNCHANGED <<dl_url, dl_files, dl_force, dl_attempt, dl_requests, dl_return,
                   dl_calls, dl_full>>
    /\ UNCHANGED outsideDownload

NextDownload == DownloadFileCall \/ DownloadAttempt \/ ProcessMeeting

-----------------------------------------------------------------------------
(* scripts/run_all.py and scripts/sep_run_all.py: the pipeline runners *)

\* str.endswith(suffix)
EndsWith(str, suffix) ==
    /\ Len(str) >= Len(suffix)
    /\ SubSeq(str, Len(str) - Len(suffix) + 1, Len(str)) = suffix

\* the links of the survey page that extract_links_from_html finds: a data
\* workbook, a PDF whose name does not say result, a results PDF whose name
\* lacks the year of its directory
SurveyLinks ==
    {[url |-> <<"/", "s", "/", "2", "0", "1", "5", "/", "j", "a", "n", "-", "2", "0", "1", "5", "-", "d", "a", "t", "a", ".", "x", "l", "s", "x">>,
      type |-> "xlsx"],
     [url |-> <<"/", "s", "/", "2", "0", "1", "5", "/", "S", "P", "D", "_", "J", "a", "n", "2", "0", "1", "5", ".", "p", "d", "f">>,
      type |-> "pdf"],
     [url |-> <<"/", "s", "/", "2", "0", "1", "4", "/", "A", "p", "r", "i", "l", "_", "r", "e", "s", "u", "l", "t", ".", "p", "d", "f">>,
      type |-> "pdf"]}

\* classify_file_type(url, filename)
classify_file_type(url, filename) ==
    [is_data_file |-> Contains(Lower(filename), <<"d", "a", "t", "a">>)
                        /\ EndsWith(url, <<".", "x", "l", "s", "x">>),
     is_results_pdf |-> Contains(Lower(filename), <<"r", "e", "s", "u", "l", "t">>)
                          /\ EndsWith(url, <<".", "p", "d", "f">>),
     is_questions_pdf |-> /\ Contains(Lower(filename), <<"s", "u", "r", "v", "e", "y">>)
                          /\ ~Contains(Lower(filename), <<"r", "e", "s", "u", "l", "t">>)
                          /\ EndsWith(url, <<".", "p", "d", "f">>)]

\* --start-year and --end-year of 01_scrape_and_download.py, as run_all.py
\* leaves them
START_YEAR == 2011
END_YEAR == 2025

\* the links 01_scrape_and_download.py hands to download_file:
\* group_links_by_meeting drops a link without a date and a questions PDF,
\* scrape_manifest keeps the meetings of the year range, and
\* download_meeting_files with prefer_xlsx=False takes get_xlsx_links and
\* get_pdf_links of each meeting
DownloadLinks(site) ==
    {link \in site :
        /\ parse_date_from_url(link.url).date # Null
        /\ ~classify_file_type(link.url, LastSegment(link.url)).is_questions_pdf
        /\ parse_date_from_url(link.url).date \div 10000 \in START_YEAR..END_YEAR
        /\ \/ link.type = "xlsx"
                 /\ classify_file_type(link.url, LastSegment(link.url)).is_data_file
           \/ link.type = "pdf"
                 /\ classify_file_type(link.url, LastSegment(link.url)).is_results_pdf}

\* the file download_meeting_files saves a link to
LocalFile(link) == [name |-> get_local_path(link.url), type |-> link.type]

\* the files data_raw may hold before a run: downloads of the links under
\* the names of their URLs
SurveyDocs == {[name |-> LastSegment(link.url), type |-> link.type] : link \in SurveyLinks}

SepDocs ==
    {[name |-> "fomcprojtabl20200610.htm", type |-> "html"],
     [name |-> "FOMC20140319SEPcompilation.pdf", type |-> "pdf"]}

\* data_dir.glob("*.<type>")
Glob(files, type) == {doc \in files : doc.type = type}

\* run_all.py main, lines 40-54: the download runs only when data_raw holds
\* neither a spreadsheet nor a PDF
RunAllScripts(data_raw) ==
    (IF Glob(data_raw, "xlsx") = {} /\ Glob(data_raw, "pdf") = {}
     THEN <<"01_scrape_and_download.py">> ELSE <<>>)
    \o <<"02_extract_xlsx.py", "03_extract_pdf_llm.py", "04_combine_and_plot.py">>

\* sep_run_all.py main, lines 51-85: core_scripts, pdf_scripts when the key
\* is set, final_scripts
SepRunAllScripts(has_api_key) ==
    <<"sep_01_discover_pages.py", "sep_02_extract_dotplot.py">>
    \o (IF has_api_key
        THEN <<"sep_01b_download_pdfs.py", "sep_02b_extract_pdf_llm.py",
               "sep_02c_combine_extracts.py">>
        ELSE <<>>)
    \o <<"sep_03_plot_longrun.py">>

\* the scripts whose main calls get_client() and exits with status 1 when it
\* returns None, before it lists the documents
ChecksCredential(script) ==
    script \in {"03_extract_pdf_llm.py", "sep_02b_extract_pdf_llm.py"}

\* the work a script does on each of its documents
ScriptWork(script) ==
    IF script \in {"01_scrape_and_download.py", "sep_01b_download_pdfs.py"}
    THEN "download" ELSE "extract"

\* the documents a script handles: the links of the manifest for the survey
\* download, what the site lists for the SEP download and the page
\* extraction (sep_01b skips a file that exists), what data_raw holds for
\* the file extractions, none for combining and plotting
ScriptDocuments(script, site, files) ==
    CASE script = "01_scrape_and_download.py" -> DownloadLinks(site)
      [] script = "02_extract_xlsx.py" -> Glob(files, "xlsx")
      [] script = "03_extract_pdf_llm.py" -> Glob(files, "pdf")
      [] script = "sep_02_extract_dotplot.py" -> Glob(site, "html")
      [] script = "sep_01b_download_pdfs.py" -> Glob(site, "pdf") \ files
      [] script = "sep_02b_extract_pdf_llm.py" -> Glob(files, "pdf")
      [] OTHER -> {}

RunEnvs ==
    [pipeline : {"survey"}, api_key : BOOLEAN,
     data_raw : SUBSET SurveyDocs, site : SUBSET SurveyLinks]
    \cup [pipeline : {"sep"}, api_key : BOOLEAN,
          data_raw : SUBSET Glob(SepDocs, "pdf"), site : SUBSET SepDocs]

RunBegin ==
    /\ run_files = run_env.data_raw
    /\ run_scripts = <<>>
    /\ run_script = ""
    /\ run_todo = {}
    /\ run_work = <<>>
    /\ run_returncode = Null
    /\ pc_run = "start"

\* main of either runner up to its first script
RunStart ==
    /\ pc_run = "start"
    /\ run_scripts' = IF run_env.pipeline = "survey"
                      THEN RunAllScripts(run_files)
                      ELSE SepRunAllScripts(run_env.api_key)
    /\ pc_run' = "next"
    /\ UNCHANGED <<run_env, run_files, run_script, run_todo, run_work, run_returncode>>
    /\ UNCHANGED outsideRun

\* run_step and run_script: the next script starts; a script that checks
\* the credential exits with status 1 when the key is not set, and the
\* runner exits with it
RunScriptStart ==
    /\ pc_run = "next"
    /\ run_scripts # <<>>
    /\ run_scripts' = Tail(run_scripts)
    /\ IF ChecksCredential(Head(run_scripts)) /\ ~run_env.api_key
       THEN /\ run_returncode' = 1
            /\ pc_run' = "failed"
            /\ UNCHANGED <<run_script, run_todo>>
       ELSE /\ run_script' = Head(run_scripts)
            /\ run_todo' = ScriptDocuments(Head(run_scripts), run_env.site, run_files)
            /\ pc_run' = "script"
            /\ UNCHANGED run_returncode
    /\ UNCHANGED <<run_env, run_files, run_work>>
    /\ UNCHANGED outsideRun

\* the file a download leaves in data_raw: the survey download names it
\* with get_local_path, the SEP download with the name of the URL's path
Downloaded(script, doc) ==
    IF script = "01_scrape_and_download.py" THEN LocalFile(doc) ELSE doc

\* what a download that fails may leave in data_raw: download_file of the
\* survey download writes the body chunk by chunk into the final path
\* (download.py lines 87-103) and nothing removes the part written when the
\* body breaks; download_pdf of the SEP download writes after the whole body
\* has arrived
LeavesPartialFile(script) == script = "01_scrape_and_download.py"

\* one pass of the loop of the running script over its documents; a
\* download may fail, and then leaves no file or, where the script writes as
\* it receives, the part of the file it had written
RunDocument ==
    /\ pc_run = "script"
    /\ \E doc \in run_todo, ok \in BOOLEAN, left \in BOOLEAN :
          /\ ScriptWork(run_script) = "extract" => ok
          /\ ok => left
          /\ left /\ ~ok => LeavesPartialFile(run_script)
          /\ run_todo' = run_todo \ {doc}
          /\ run_work' = Append(run_work, [script |-> run_script, doc |-> doc,
                                           work |-> ScriptWork(run_script), ok |-> ok])
          /\ run_files' = IF ScriptWork(run_script) = "download" /\ left
                          THEN run_files \cup {Downloaded(run_script, doc)}
                          ELSE run_files
    /\ UNCHANGED <<run_env, run_scripts, run_script, run_returncode, pc_run>>
    /\ UNCHANGED outsideRun

\* result.returncode of a script: 0, 1 for an exception it does not catch,
\* -15 when a signal ends it
ChildStatuses == {0, 1, -15}

\* the status the runner exits with when a script returns a status other than
\* 0: run_all.py calls sys.exit(result.returncode), of which the system keeps
\* the low eight bits, and sep_run_all.py calls sys.exit(1)
RunnerStatus(pipeline, returncode) ==
    IF pipeline = "survey" THEN returncode % 256 ELSE 1

\* the running script ends: with status 0 after its last document, or at any
\* point with another status, which ends the run
RunScriptExit ==
    /\ pc_run = "script"
    /\ run_script' = ""
    /\ \E returncode \in ChildStatuses :
          IF returncode = 0
          THEN run_todo = {} /\ pc_run' = "next" /\ UNCHANGED run_returncode
          ELSE /\ pc_run' = "failed"
               /\ run_returncode' = RunnerStatus(run_env.pipeline, returncode)
    /\ UNCHANGED <<run_env, run_files, run_scripts, run_todo, run_work>>
    /\ UNCHANGED outsideRun

\* every script has run
RunComplete ==
    /\ pc_run = "next"
    /\ run_scripts = <<>>
    /\ run_returncode' = 0
    /\ pc_run' = "complete"
    /\ UNCHANGED <<run_env, run_files, run_scripts, run_script, run_todo, run_work>>
    /\ UNCHANGED outsideRun

NextRun == RunStart \/ RunScriptStart \/ RunDocument \/ RunScriptExit \/ RunComplete

-----------------------------------------------------------------------------
(* Specifications: each part of the program runs with the others at rest *)

CombineIdle ==
    /\ csv_present = {}
    /\ xlsx_csv = <<>>
    /\ pdf_csv = <<>>
    /\ combined = <<>>
    /\ pc_combine = "off"
    /\ tie_order = "kept"
    /\ doc_rows = {}

NormIdle ==
    /\ norm_value = PyNone
    /\ norm_result = Null
    /\ pc_norm = "off"

PanelIdle ==
    /\ dp_filename = <<>>
    /\ dp_date = NoDate
    /\ dp_result = ""
    /\ pc_dp = "off"

XlIdle ==
    /\ xl_doc = [filepath |-> "", file_url |-> "", survey_date |-> NoDate]
    /\ xl_workbook = <<>>
    /\ xl_survey_type = ""
    /\ xl_results = <<>>
    /\ pc_xl = "off"

Step2Idle ==
    /\ s2_dir = <<>>
    /\ s2_xlsx_files = <<>>
    /\ s2_next = 1
    /\ s2_all_results = <<>>
    /\ s2_csv = <<>>
    /\ pc_s2 = "off"

MatchIdle ==
    /\ mr_text = <<>>
    /\ mr_result = FALSE
    /\ pc_mr = "off"

PdfIdle ==
    /\ pd_doc = [npages |-> 0]
    /\ pd_pctls = NoPercentiles
    /\ pd_page = Null
    /\ pd_source = ""
    /\ pd_queue = <<>>
    /\ pd_calls = [tables |-> FALSE, ocr |-> {}]
    /\ pd_results = <<>>
    /\ pc_pd = "off"

OpenaiIdle ==
    /\ oa_doc = [api_key |-> FALSE]
    /\ oa_response = [kind |-> "none"]
    /\ oa_results = <<>>
    /\ pc_oa = "off"

DotsIdle ==
    /\ dq_dots = <<>>
    /\ dq_result = NoDots
    /\ pc_dq = "off"

RunIdle ==
    /\ run_env = [pipeline |-> "", api_key |-> FALSE, data_raw |-> {}, site |-> {}]
    /\ run_files = {}
    /\ run_scripts = <<>>
    /\ run_script = ""
    /\ run_todo = {}
    /\ run_work = <<>>
    /\ run_returncode = Null
    /\ pc_run = "off"

SepCombineIdle ==
    /\ sc_summary = NoFile
    /\ sc_pdf_extracts = NoFile
    /\ sc_backup = NoFile
    /\ sc_first = <<>>
    /\ sc_runs = 0
    /\ pc_sc = "off"

ParseIdle ==
    /\ pp_text = <<>>
    /\ pp_result = NoPercentiles
    /\ pc_pp = "off"

SectionIdle ==
    /\ fs_pages = <<>>
    /\ fs_sections = <<>>
    /\ pc_fs = "off"

UrlIdle ==
    /\ pu_url = <<>>
    /\ pu_result = NoDateNoType
    /\ pc_pu = "off"

DownloadIdle ==
    /\ dl_url = <<>>
    /\ dl_files = {}
    /\ dl_force = FALSE
    /\ dl_attempt = 0
    /\ dl_requests = 0
    /\ dl_return = ""
    /\ dl_calls = 0
    /\ dl_full = FALSE
    /\ dl_found = NoText
    /\ pc_dl = "off"

Step3Idle ==
    /\ s3_env = [api_key |-> FALSE, xlsx_csv |-> [exists |-> FALSE, rows |-> <<>>],
                 pdfs |-> {}, limit |-> Null]
    /\ s3_xlsx_dates = {}
    /\ s3_pdf_files = <<>>
    /\ s3_next = 1
    /\ s3_results = <<>>
    /\ s3_skipped = 0
    /\ s3_calls = 0
    /\ s3_last = NoCall
    /\ s3_csv = <<>>
    /\ pc_s3 = "off"

InitCombine ==
    /\ csv_present \in SUBSET {"xlsx", "pdf"}
    /\ tie_order \in QuicksortTies
    /\ doc_rows \in RowSetsUpTo(DocumentRows, MaxRows)
    /\ CombineStart
    /\ NormIdle
    /\ PanelIdle
    /\ XlIdle
    /\ Step2Idle
    /\ Step3Idle
    /\ MatchIdle
    /\ PdfIdle
    /\ OpenaiIdle
    /\ DotsIdle
    /\ RunIdle
    /\ SepCombineIdle
    /\ ParseIdle
    /\ SectionIdle
    /\ UrlIdle
    /\ DownloadIdle

SpecCombine == InitCombine /\ [][NextCombine]_vars

InitNorm ==
    /\ norm_value \in NormInputs
    /\ NormStart
    /\ CombineIdle
    /\ PanelIdle
    /\ XlIdle
    /\ Step2Idle
    /\ Step3Idle
    /\ MatchIdle
    /\ PdfIdle
    /\ OpenaiIdle
    /\ DotsIdle
    /\ RunIdle
    /\ SepCombineIdle
    /\ ParseIdle
    /\ SectionIdle
    /\ UrlIdle
    /\ DownloadIdle

SpecNorm == InitNorm /\ [][NextNorm]_vars

InitPanel ==
    /\ dp_filename \in PdfNames
    /\ dp_date \in PanelDates
    /\ PanelStart
    /\ CombineIdle
    /\ NormIdle
    /\ XlIdle
    /\ Step2Idle
    /\ Step3Idle
    /\ MatchIdle
    /\ PdfIdle
    /\ OpenaiIdle
    /\ DotsIdle
    /\ RunIdle
    /\ SepCombineIdle
    /\ ParseIdle
    /\ SectionIdle
    /\ UrlIdle
    /\ DownloadIdle

SpecPanel == InitPanel /\ [][NextPanel]_vars

InitXlsx ==
    /\ xl_doc \in XlDocs
    /\ xl_workbook \in Workbooks(MaxSheets)
    /\ xl_survey_type \in XlSurveyTypes
    /\ XlStart
    /\ CombineIdle
    /\ NormIdle
    /\ PanelIdle
    /\ Step2Idle
    /\ Step3Idle
    /\ MatchIdle
    /\ PdfIdle
    /\ OpenaiIdle
    /\ DotsIdle
    /\ RunIdle
    /\ SepCombineIdle
    /\ ParseIdle
    /\ SectionIdle
    /\ UrlIdle
    /\ DownloadIdle

SpecXlsx == InitXlsx /\ [][NextXlsx]_vars

InitStep2 ==
    /\ s2_dir \in XlsxDirs
    /\ Step2Begin
    /\ CombineIdle
    /\ NormIdle
    /\ PanelIdle
    /\ XlIdle
    /\ Step3Idle
    /\ MatchIdle
    /\ PdfIdle
    /\ OpenaiIdle
    /\ DotsIdle
    /\ RunIdle
    /\ SepCombineIdle
    /\ ParseIdle
    /\ SectionIdle
    /\ UrlIdle
    /\ DownloadIdle

InitStep3 ==
    /\ s3_env \in Step3Envs
    /\ Step3Begin
    /\ CombineIdle
    /\ NormIdle
    /\ PanelIdle
    /\ XlIdle
    /\ Step2Idle
    /\ MatchIdle
    /\ PdfIdle
    /\ OpenaiIdle
    /\ DotsIdle
    /\ RunIdle
    /\ SepCombineIdle
    /\ ParseIdle
    /\ SectionIdle
    /\ UrlIdle
    /\ DownloadIdle

InitMatch ==
    /\ mr_text \in MatchTexts(Len(Fillers))
    /\ MatchStart
    /\ CombineIdle
    /\ NormIdle
    /\ PanelIdle
    /\ XlIdle
    /\ Step2Idle
    /\ Step3Idle
    /\ PdfIdle
    /\ OpenaiIdle
    /\ DotsIdle
    /\ RunIdle
    /\ SepCombineIdle
    /\ ParseIdle
    /\ SectionIdle
    /\ UrlIdle
    /\ DownloadIdle

SpecMatch == InitMatch /\ [][NextMatch]_vars

InitPdf ==
    /\ pd_doc \in PdfDocs(MaxPages)
    /\ PdfBegin
    /\ CombineIdle
    /\ NormIdle
    /\ PanelIdle
    /\ XlIdle
    /\ Step2Idle
    /\ Step3Idle
    /\ MatchIdle
    /\ OpenaiIdle
    /\ DotsIdle
    /\ RunIdle
    /\ SepCombineIdle
    /\ ParseIdle
    /\ SectionIdle
    /\ UrlIdle
    /\ DownloadIdle

SpecPdf == InitPdf /\ [][NextPdf]_vars

InitOpenai ==
    /\ oa_doc \in OpenaiDocs
    /\ oa_response \in OpenaiResponses(Len(OpenaiPercentiles))
    /\ OpenaiStart
    /\ CombineIdle
    /\ NormIdle
    /\ PanelIdle
    /\ XlIdle
    /\ Step2Idle
    /\ Step3Idle
    /\ MatchIdle
    /\ PdfIdle
    /\ DotsIdle
    /\ RunIdle
    /\ SepCombineIdle
    /\ ParseIdle
    /\ SectionIdle
    /\ UrlIdle
    /\ DownloadIdle

SpecOpenai == InitOpenai /\ [][NextOpenai]_vars

InitDots ==
    /\ dq_dots \in DotMappings(MaxLevels)
    /\ DotsStart
    /\ CombineIdle
    /\ NormIdle
    /\ PanelIdle
    /\ XlIdle
    /\ Step2Idle
    /\ Step3Idle
    /\ MatchIdle
    /\ PdfIdle
    /\ OpenaiIdle
    /\ RunIdle
    /\ SepCombineIdle
    /\ ParseIdle
    /\ SectionIdle
    /\ UrlIdle
    /\ DownloadIdle

SpecDots == InitDots /\ [][NextDots]_vars

InitRun ==
    /\ run_env \in RunEnvs
    /\ RunBegin
    /\ CombineIdle
    /\ NormIdle
    /\ PanelIdle
    /\ XlIdle
    /\ Step2Idle
    /\ Step3Idle
    /\ MatchIdle
    /\ PdfIdle
    /\ OpenaiIdle
    /\ DotsIdle
    /\ SepCombineIdle
    /\ ParseIdle
    /\ SectionIdle
    /\ UrlIdle
    /\ DownloadIdle

SpecRun == InitRun /\ [][NextRun]_vars

InitSepCombine ==
    /\ sc_summary \in {NoFile, NoColumns} \cup SepTables(SepHtmlRows, MaxSepRows)
    /\ sc_pdf_extracts \in {NoFile} \cup SepTables(SepPdfRows, MaxSepRows)
    /\ SepCombineBegin
    /\ CombineIdle
    /\ NormIdle
    /\ PanelIdle
    /\ XlIdle
    /\ Step2Idle
    /\ Step3Idle
    /\ MatchIdle
    /\ PdfIdle
    /\ OpenaiIdle
    /\ DotsIdle
    /\ RunIdle
    /\ ParseIdle
    /\ SectionIdle
    /\ UrlIdle
    /\ DownloadIdle

SpecSepCombine == InitSepCombine /\ [][NextSepCombine]_vars

InitParse ==
    /\ pp_text \in SectionTexts(MaxPhrases)
    /\ ParseStart
    /\ CombineIdle
    /\ NormIdle
    /\ PanelIdle
    /\ XlIdle
    /\ Step2Idle
    /\ Step3Idle
    /\ MatchIdle
    /\ PdfIdle
    /\ OpenaiIdle
    /\ DotsIdle
    /\ RunIdle
    /\ SepCombineIdle
    /\ SectionIdle
    /\ UrlIdle
    /\ DownloadIdle

SpecParse == InitParse /\ [][NextParse]_vars

InitSection ==
    /\ fs_pages \in PageLists(MaxTextPages)
    /\ SectionStart
    /\ CombineIdle
    /\ NormIdle
    /\ PanelIdle
    /\ XlIdle
    /\ Step2Idle
    /\ Step3Idle
    /\ MatchIdle
    /\ PdfIdle
    /\ OpenaiIdle
    /\ DotsIdle
    /\ RunIdle
    /\ SepCombineIdle
    /\ ParseIdle
    /\ UrlIdle
    /\ DownloadIdle

SpecSection == InitSection /\ [][NextSection]_vars

InitUrl ==
    /\ pu_url \in Urls
    /\ UrlStart
    /\ CombineIdle
    /\ NormIdle
    /\ PanelIdle
    /\ XlIdle
    /\ Step2Idle
    /\ Step3Idle
    /\ MatchIdle
    /\ PdfIdle
    /\ OpenaiIdle
    /\ DotsIdle
    /\ RunIdle
    /\ SepCombineIdle
    /\ ParseIdle
    /\ SectionIdle
    /\ DownloadIdle

SpecUrl == InitUrl /\ [][NextUrl]_vars

InitDownload ==
    /\ dl_url \in LinkUrls
    /\ DownloadBegin
    /\ CombineIdle
    /\ NormIdle
    /\ PanelIdle
    /\ XlIdle
    /\ Step2Idle
    /\ Step3Idle
    /\ MatchIdle
    /\ PdfIdle
    /\ OpenaiIdle
    /\ DotsIdle
    /\ RunIdle
    /\ SepCombineIdle
    /\ ParseIdle
    /\ SectionIdle
    /\ UrlIdle

SpecDownload == InitDownload /\ [][NextDownload]_vars

\* the two extraction steps, each run from its start
InitExtract == InitStep2 \/ InitStep3

NextExtract == NextStep2 \/ NextStep3

SpecExtract == InitExtract /\ [][NextExtract]_vars

\* the whole program: any one part, run from its start
Init == InitCombine \/ InitNorm \/ InitPanel \/ InitXlsx \/ InitStep2
    \/ InitStep3 \/ InitMatch \/ InitPdf \/ InitOpenai \/ InitDots \/ InitRun
    \/ InitSepCombine \/ InitParse \/ InitSection \/ InitUrl \/ InitDownload

Next == NextCombine \/ NextNorm \/ NextPanel \/ NextXlsx \/ NextStep2
    \/ NextStep3 \/ NextMatch \/ NextPdf \/ NextOpenai \/ NextDots \/ NextRun
    \/ NextSepCombine \/ NextParse \/ NextSection \/ NextUrl \/ NextDownload

Spec == Init /\ [][Next]_vars

-----------------------------------------------------------------------------
(* Properties of the combine step *)

SamePair(a, b) == a.survey_date = b.survey_date /\ a.panel = b.panel

\* the smallest source priority among the rows of df that share r's pair
BestPriority(df, r) ==
    CHOOSE q \in {SourcePriority(df[i].source) : i \in {k \in 1..Len(df) : SamePair(df[k], r)}} :
        \A i \in 1..Len(df) : SamePair(df[i], r) => q <= SourcePriority(df[i].source)

\* the first row of df, in df's order, with r's pair and the pair's best priority
FirstBest(df, r) ==
    LET cand == {i \in 1..Len(df) :
                    /\ SamePair(df[i], r)
                    /\ SourcePriority(df[i].source) = BestPriority(df, r)}
    IN  df[CHOOSE i \in cand : \A j \in cand : i <= j]

\* C1: after the combine step the output holds at most one row per
\* (survey_date, panel); every pair of the input is represented; the row kept
\* for a pair has the smallest source priority of the pair's input rows and,
\* among rows of that priority, is the one that came first in the input.
ReconcileKeepsBestSource ==
    pc_combine = "done" =>
        \A input \in {ConcatExtracts} :
            /\ \A i, j \in 1..Len(combined) :
                  i # j => ~SamePair(combined[i], combined[j])
            /\ \A k \in 1..Len(input) :
                  \E i \in 1..Len(combined) : SamePair(combined[i], input[k])
            /\ \A i \in 1..Len(combined) :
                  /\ \E k \in 1..Len(input) : SamePair(input[k], combined[i])
                  /\ combined[i] = FirstBest(input, combined[i])

\* a pdf_text row produced before an xlsx row of the same pair lost to it
ReconcileKeepsBestSourceWitness ==
    /\ pc_combine = "done"
    /\ Len(ConcatExtracts) = 2
    /\ SamePair(ConcatExtracts[1], ConcatExtracts[2])
    /\ ConcatExtracts[1].source = "pdf_text"
    /\ ConcatExtracts[2].source = "xlsx"
    /\ combined = <<ConcatExtracts[2]>>

\* C2: the combine step applied to its own output returns that output, row
\* for row and in the same order.
ReconcileIdempotent ==
    pc_combine = "done" => Reconcile(combined) = combined

\* an output of two rows that the step had to reorder
ReconcileIdempotentWitness ==
    /\ pc_combine = "done"
    /\ Len(combined) = 2
    /\ combined # ConcatExtracts
    /\ combined[1].survey_date = combined[2].survey_date

Permuted(df, f) == [i \in 1..Len(df) |-> df[f[i]]]

Rows(df) == {df[i] : i \in 1..Len(df)}

\* C3 as stated: every ordering of the input rows yields the same kept row
\* for every pair.
ReconcileOrderIndependent ==
    pc_combine = "done" =>
        \A f \in Orderings(Len(ConcatExtracts)) :
            Rows(Reconcile(Permuted(ConcatExtracts, f))) = Rows(combined)

\* C3 amended: every ordering of the input rows yields, for every pair, a
\* kept row of the same source priority (the pair's smallest), and the very
\* same row whenever the pair's rows of that priority are all equal; when
\* they differ, each ordering keeps the one of them that comes first in it.
ReconcileOrderIndependentUpToTies ==
    pc_combine = "done" =>
        \A input \in {ConcatExtracts} :
        \A f \in Orderings(Len(input)) :
        \A other \in {Reconcile(Permuted(input, f))} :
            /\ Len(other) = Len(combined)
            /\ \A i \in 1..Len(combined) :
                  \E j \in 1..Len(other) :
                      /\ SamePair(other[j], combined[i])
                      /\ combined[i] = FirstBest(input, combined[i])
                      /\ other[j] = FirstBest(Permuted(input, f), other[j])
                      /\ SourcePriority(other[j].source) = BestPriority(input, combined[i])
                      /\ SourcePriority(combined[i].source) = BestPriority(input, combined[i])
                      /\ (\A k \in 1..Len(input) :
                            (/\ SamePair(input[k], combined[i])
                             /\ SourcePriority(input[k].source)
                                  = SourcePriority(combined[i].source))
                            => input[k] = combined[i])
                         => other[j] = combined[i]

\* two rows of one pair and one priority that differ in their percentiles:
\* the first was kept
ReconcileOrderIndependentUpToTiesWitness ==
    /\ pc_combine = "done"
    /\ Len(ConcatExtracts) = 2
    /\ SamePair(ConcatExtracts[1], ConcatExtracts[2])
    /\ SourcePriority(ConcatExtracts[1].source) = SourcePriority(ConcatExtracts[2].source)
    /\ ConcatExtracts[1].pctl50 # ConcatExtracts[2].pctl50
    /\ combined = <<ConcatExtracts[1]>>

-----------------------------------------------------------------------------
(* Properties of determine_panel *)

\* a file name that says combined, total or all
HasCombinedMarker(fn) ==
    \/ Contains(fn, <<"c", "o", "m", "b", "i", "n", "e", "d">>)
    \/ Contains(fn, <<"t", "o", "t", "a", "l">>)
    \/ Contains(fn, <<"a", "l", "l">>)

\* C8 as stated: whatever the date, a name with a dealer marker is classified
\* SPD, a name with a participant marker and no dealer marker SMP, and a name
\* with a combined/total/all marker and neither of the others Combined.
PanelMarkerPrecedence ==
    pc_dp = "returned" =>
        \A fn \in {Lower(dp_filename)} :
            /\ HasSpdMarker(fn) => dp_result = PANEL_SPD
            /\ (HasSmpMarker(fn) /\ ~HasSpdMarker(fn)) => dp_result = PANEL_SMP
            /\ (HasCombinedMarker(fn) /\ ~HasSpdMarker(fn) /\ ~HasSmpMarker(fn))
                  => dp_result = PANEL_COMBINED

\* C9: determine_panel always returns one of the three panels, and for a name
\* without a dealer or participant marker it returns SPD for a date before
\* 2014-01-01, SPD for a date from 2014-01-01 up to but not including
\* 2016-11-01, and Combined for a later date and for no date.
PanelDateFallback ==
    pc_dp = "returned" =>
        /\ dp_result \in Panels
        /\ \A fn \in {Lower(dp_filename)} :
              (~HasSpdMarker(fn) /\ ~HasSmpMarker(fn)) =>
                  /\ (dp_date # NoDate /\ dp_date < 20140101) => dp_result = "SPD"
                  /\ (20140101 <= dp_date /\ dp_date < 20161101) => dp_result = "SPD"
                  /\ (dp_date >= 20161101 \/ dp_date = NoDate) => dp_result = "Combined"

\* a name without markers, dated between the two cut-over dates, came out SPD
PanelDateFallbackWitness ==
    /\ pc_dp = "returned"
    /\ dp_filename = FN_JUN2015
    /\ dp_date = 20150601
    /\ dp_result = "SPD"

-----------------------------------------------------------------------------
(* Properties of normalize_percent *)

\* C10: for a number v (in units of 0.0001) normalize_percent returns v * 100
\* when |v| < 0.5 and v itself when 0.5 <= |v| <= 10; so 0.5 is not rescaled
\* and 0 gives 0.
NormalizeRescalesBelowHalf ==
    (pc_norm = "returned" /\ norm_value.t = "num") =>
        /\ Abs(norm_value.n) < 5000 => norm_result = norm_value.n * 100
        /\ (5000 <= Abs(norm_value.n) /\ Abs(norm_value.n) <= 100000)
              => norm_result = norm_value.n
        /\ norm_value.n = 0 => norm_result = 0

\* the boundary value 0.5 was normalised and came back unchanged
NormalizeRescalesBelowHalfWitness ==
    /\ pc_norm = "returned"
    /\ norm_value = PyNum(5000)
    /\ norm_result = 5000

-----------------------------------------------------------------------------
(* Properties of extract_from_xlsx *)

\* no sheet of the workbook gave a record
NoPercentileFound ==
    AllSheetResults(xl_workbook, xl_doc.filepath, xl_doc.file_url,
                    xl_doc.survey_date) = <<>>

\* the one record returned for a document without data, up to its notes
OneNullRecord ==
    /\ Len(xl_results) = 1
    /\ xl_results[1].pctl25 = Null
    /\ xl_results[1].pctl50 = Null
    /\ xl_results[1].pctl75 = Null
    /\ xl_results[1].file_url = xl_doc.file_url
    /\ xl_results[1].local_path = xl_doc.filepath

\* C5 as stated: when no sheet of the document gives a percentile, the
\* extractor returns exactly one record with three null percentiles, the
\* notes "no data extracted" and the document's file_url and local_path, and
\* it never returns an empty list.
XlsxNoDataRecordNotes ==
    pc_xl = "returned" =>
        /\ xl_results # <<>>
        /\ NoPercentileFound =>
            OneNullRecord /\ xl_results[1].notes = "no data extracted"

\* C5 amended: when no sheet of the document gives a percentile, the
\* extractor returns exactly one record with three null percentiles and the
\* document's file_url and local_path, whose notes is "no_sheets_found" for a
\* workbook without sheets and "question_not_present" otherwise; it never
\* returns an empty list.
XlsxNoDataRecord ==
    pc_xl = "returned" =>
        /\ xl_results # <<>>
        /\ NoPercentileFound =>
            /\ OneNullRecord
            /\ xl_results[1].notes =
                 IF xl_workbook = <<>> THEN "no_sheets_found" ELSE "question_not_present"

XlsxNoDataRecordWitness ==
    /\ pc_xl = "returned"
    /\ Len(xl_workbook) = 2
    /\ xl_workbook[1].readable /\ xl_workbook[1].rows # <<>>
    /\ NoPercentileFound
    /\ xl_doc.file_url # xl_doc.filepath
    /\ xl_results[1].notes = "question_not_present"

\* C6 as stated: called with the survey_type SPD or SMP, extract_from_xlsx
\* returns no record whose panel is Combined, whether data was found or not.
XlsxHintOverridesCombined ==
    (pc_xl = "returned" /\ xl_survey_type \in {PANEL_SPD, PANEL_SMP}) =>
        \A i \in 1..Len(xl_results) : xl_results[i].panel # PANEL_COMBINED

\* C7 as stated: every record the extractor returns has the panel SPD, SMP
\* or Combined, whatever label the panel column of the sheet holds.
XlsxPanelCanonical ==
    pc_xl = "returned" =>
        \A i \in 1..Len(xl_results) : xl_results[i].panel \in Panels

-----------------------------------------------------------------------------
(* Properties of the two extraction steps *)

\* the spreadsheet step has at least one record for every file it has handled
XlsxStepCoversFiles ==
    /\ pc_s2 \in {"loop", "done"} => Len(s2_all_results) >= s2_next - 1
    /\ pc_s2 = "done" => Len(s2_csv) >= Len(s2_xlsx_files)

\* C4 as stated: every XLSX file handled by the spreadsheet step and every
\* PDF handled by the vision-assisted step adds one or more records, so the
\* records written are never fewer than the documents processed.
RecordsCoverDocuments ==
    /\ XlsxStepCoversFiles
    /\ pc_s3 \in {"loop", "done"} => Len(s3_results) >= s3_next - 1
    /\ pc_s3 = "done" => Len(s3_csv) >= Len(s3_pdf_files)

\* the records of all_results that the spreadsheet at position k of
\* xlsx_files gave
RecordsOfFile(k) ==
    {i \in 1..Len(s2_all_results) :
        s2_all_results[i].local_path = XlsxNamesSorted[s2_xlsx_files[k]]}

\* C4 amended: every XLSX file whose handling by the spreadsheet step
\* completes adds one or more records; every PDF whose handling by the
\* vision-assisted step completes adds exactly one record unless its
\* year-month has a row in the spreadsheet extract, and then it adds none and
\* is counted as skipped.  A document whose handling raises adds no record and
\* is not counted as skipped, and the run ends there without writing its
\* table.  So the records and the skipped PDFs together number the PDFs
\* handled to completion, which in a run that writes its table are all of them.
RecordsAndSkipsCoverDocuments ==
    /\ pc_s2 \in {"loop", "done", "raised"} =>
            /\ \A k \in 1..(s2_next - 1) : RecordsOfFile(k) # {}
            /\ \A i \in 1..Len(s2_all_results) :
                    \E k \in 1..(s2_next - 1) : i \in RecordsOfFile(k)
    /\ pc_s2 = "done" =>
            /\ s2_next - 1 = Len(s2_xlsx_files)
            /\ s2_csv = s2_all_results
    /\ pc_s2 = "raised" =>
            /\ s2_next <= Len(s2_xlsx_files)
            /\ s2_csv = <<>>
    /\ pc_s3 \in {"loop", "done", "raised"} =>
            Len(s3_results) + s3_skipped = s3_next - 1
    /\ pc_s3 = "done" =>
            /\ s3_next - 1 = Len(s3_pdf_files)
            /\ Len(s3_csv) + s3_skipped = Len(s3_pdf_files)
    /\ pc_s3 = "raised" =>
            /\ s3_next <= Len(s3_pdf_files)
            /\ s3_last.status = "raised"
            /\ s3_csv = <<>>
    /\ s3_skipped > 0 => s3_xlsx_dates # {}
    /\ \A i \in 1..Len(s3_results) :
            YearMonth(s3_results[i].survey_date) \notin s3_xlsx_dates

\* a run over two PDFs: the first was skipped for its spreadsheet row, the
\* handling of the second raised, and no record and no table was written
RecordsAndSkipsCoverDocumentsWitness ==
    /\ pc_s3 = "raised"
    /\ Len(s3_pdf_files) = 2
    /\ s3_next = 2
    /\ s3_skipped = 1
    /\ s3_results = <<>>
    /\ s3_csv = <<>>

-----------------------------------------------------------------------------
(* Properties of the percentile scale *)

\* the record process_pdf returned last
LastRecord == s3_results[Len(s3_results)]

\* C11: a percentile that the inference service returns with a magnitude
\* below 0.5 is stored by the vision-assisted extractor as 100 times the
\* value, as the spreadsheet and the narrative extractors store it.
LlmFractionStoredTimes100 ==
    s3_last.status = "record" =>
        \A key \in PercentileKeys :
            LET raw == s3_last.result[key]
            IN  raw.t = "num" /\ Abs(raw.n) < RESCALE_BELOW =>
                    LastRecord[key] = raw.n * 100

-----------------------------------------------------------------------------
(* Properties of the keyword rule *)

\* C12: matches_longer_run_ff(text) is true exactly when the text holds a
\* longer-run keyword and a federal-funds keyword, whichever comes first,
\* whatever stands between them and in whatever letter case.
KeywordCooccurrence ==
    pc_mr = "returned" =>
        \A lr \in 1..Len(LongerRunWordings), ff \in 1..Len(FederalFundsWordings),
           filler \in 1..Len(Fillers), lr_first \in BOOLEAN :
            mr_text = ComposeText(lr, ff, filler, lr_first) =>
                (mr_result <=> LongerRunWordings[lr].kw /\ FederalFundsWordings[ff].kw)

\* a text in capitals with the federal-funds keyword first and a line of
\* other words before the longer-run keyword, found to match
KeywordCooccurrenceWitness ==
    /\ pc_mr = "returned"
    /\ mr_text = ComposeText(2, 2, 3, FALSE)
    /\ mr_result

\* a text with a longer-run keyword and no federal-funds keyword, rejected
KeywordMissingWitness ==
    /\ pc_mr = "returned"
    /\ mr_text = ComposeText(1, 8, 2, TRUE)
    /\ ~mr_result

-----------------------------------------------------------------------------
(* Properties of extract_from_pdf *)

\* the candidates of a file in the order extract_from_pdf visits them:
\* sections, tables, the first OCR pages, the OCR pages left
CandidatesInOrder(doc) ==
    doc.sections \o doc.tables \o
    (IF doc.use_ocr /\ doc.OCR_AVAILABLE
     THEN [i \in 1..Len(OcrFirstPages(doc)) |-> doc.ocr[OcrFirstPages(doc)[i]]] \o
          [i \in 1..Len(OcrMorePages(doc)) |-> doc.ocr[OcrMorePages(doc)[i]]]
     ELSE <<>>)

\* the first value a matching candidate holds for the slot, Null for none
FirstFound(key, cands) ==
    LET hits == {i \in 1..Len(cands) : cands[i].matches /\ cands[i].parsed[key] # Null}
    IN  IF hits = {} THEN Null
        ELSE cands[CHOOSE i \in hits : \A k \in hits : i <= k].parsed[key]

\* C13: in extract_from_pdf a slot that holds a value keeps it whatever a
\* later section, table or OCR page offers; the value returned for a slot is
\* the first one found in the order sections, tables, OCR pages; and no table
\* is read and no page sent to OCR once the three slots are filled.
PdfSlotsFilledOnce ==
    /\ [][\A key \in PercentileKeys :
              pd_pctls[key] # Null => pd_pctls'[key] = pd_pctls[key]]_vars
    /\ [][AllFilled(pd_pctls) => pd_calls' = pd_calls]_vars
    /\ [](pc_pd = "returned" =>
              \A key \in PercentileKeys :
                  pd_results[1][key] = FirstFound(key, CandidatesInOrder(pd_doc)))

\* two sections offer different medians and neither the 75th percentile:
\* the tables are read and the median returned is the first section's
PdfSlotsFilledOnceWitness ==
    /\ pc_pd = "returned"
    /\ Len(pd_doc.sections) = 2
    /\ pd_doc.sections[1].parsed.pctl50 # Null
    /\ pd_doc.sections[2].parsed.pctl50 # Null
    /\ pd_doc.sections[2].parsed.pctl50 # pd_doc.sections[1].parsed.pctl50
    /\ pd_calls.tables
    /\ pd_results[1].pctl50 = pd_doc.sections[1].parsed.pctl50
    /\ pd_results[1].pctl75 # Null


\* C14: extract_from_pdf returns one record; its notes are null exactly when
\* a percentile slot is filled; when none is filled the notes say that the
\* question is not present, and they carry the marker for "no matching
\* sections found" exactly when find_longer_run_section cut no candidate
\* section out of the text of the file.
PdfOneRecordWithNotes ==
    /\ Len(pd_results) <= 1
    /\ pc_pd = "returned" =>
        /\ Len(pd_results) = 1
        /\ LET r == pd_results[1]
               filled == \E key \in PercentileKeys : r[key] # Null
           IN  /\ r.notes = NoNotes <=> filled
               /\ ~filled =>
                    /\ r.notes \in {"question_not_present",
                                    "question_not_present; no_matching_sections_found"}
                    /\ r.notes = "question_not_present; no_matching_sections_found"
                         <=> pd_doc.sections = <<>>

\* a section was cut out, the tables were read and a page sent to OCR, and
\* no percentile was found: the notes carry the first marker only
PdfOneRecordWithNotesWitness ==
    /\ pc_pd = "returned"
    /\ pd_doc.sections # <<>>
    /\ pd_calls.tables
    /\ pd_calls.ocr # {}
    /\ \A key \in PercentileKeys : pd_results[1][key] = Null
    /\ pd_results[1].notes = "question_not_present"

-----------------------------------------------------------------------------
(* Properties of the vision-assisted extractors *)

\* the number a JSON value is, in units of 0.0001
JsonNumber(value) == IF value.t = "int" THEN value.n * 10000 ELSE value.n

\* C15: of a response of the inference service, a percentile below 0 or
\* above 10 is stored as null and one from 0 to 10 is stored as it is, each
\* field by itself; here for extract_percentiles_with_openai.
OpenaiSanityBounds ==
    (pc_oa = "returned" /\ oa_doc.api_key /\ oa_response.kind = "json"
        /\ oa_response.value.json = "object") =>
        \A key \in PercentileKeys :
            LET raw == oa_response.value[key]
            IN  raw.t \in {"int", "num"} =>
                    oa_results[1][key] =
                        IF JsonNumber(raw) < 0 \/ JsonNumber(raw) > 100000
                        THEN Null ELSE JsonNumber(raw)


\* C16: whatever the inference service answers, process_pdf ends with a
\* record and no exception reaches the loop of main; a response that could
\* not be read gives a record without percentiles whose notes name the error.
LlmMalformedGivesRecord ==
    /\ s3_last.status # "raised"
    /\ pc_s3 # "raised"
    /\ (s3_last.status = "record" /\ s3_last.result.error # NoNotes) =>
          /\ \A key \in PercentileKeys : LastRecord[key] = Null
          /\ LastRecord.notes = s3_last.result.error

\* C17: a PDF whose year and month already have spreadsheet data is skipped
\* without a request to the inference service: the step that skips a PDF
\* sends none.
SkipSendsNoRequest ==
    [][s3_skipped' > s3_skipped => s3_calls' = s3_calls]_vars

\* the PDF that process_pdf was called on last
LastPdf == s3_pdf_files[IF s3_last.status = "raised" THEN s3_next ELSE s3_next - 1]

\* C18: a PDF is skipped only when the spreadsheet table holds, for the year
\* and month of the PDF, a row with at least one percentile.
SkipNeedsSpreadsheetData ==
    s3_last.status = "skipped" =>
        \E i \in 1..Len(s3_env.xlsx_csv.rows) :
            /\ YearMonth(s3_env.xlsx_csv.rows[i].survey_date)
                 = YearMonth(parse_survey_date(s3_last.result, LastPdf))
            /\ \E key \in PercentileKeys : s3_env.xlsx_csv.rows[i][key] # Null


\* scripts/sep_02b_extract_pdf_llm.py, line 32
MAX_RETRIES == 3

\* C19: a request that is refused for the rate limit is sent again, three
\* times at most for one document, before the document is given up; here for
\* the survey PDFs: a step that ends a document on a rate-limit error has
\* sent MAX_RETRIES requests.
SurveyRateLimitRetried ==
    [][(s3_next' = s3_next + 1 /\ s3_last'.result.error = RATE_LIMIT_ERROR)
          => s3_calls' = s3_calls + MAX_RETRIES]_vars

-----------------------------------------------------------------------------
(* Properties of dots_to_percentiles *)

\* the items whose key is a rate level, as [rate, count] with the rate a
\* number
RateLevels(dots) ==
    LET parsed == [i \in 1..Len(dots) |->
                      [rate |-> ParseFloat(dots[i].rate), count |-> dots[i].count]]
    IN  SubSeqAt(parsed, {i \in 1..Len(dots) : parsed[i].rate # Null})

\* the sum of the dot counts over the rate levels
RECURSIVE DotCount(_)
DotCount(levels) ==
    IF levels = <<>> THEN 0 ELSE Head(levels).count + DotCount(Tail(levels))

\* the number of dots at levels below v (strict) or up to v
DotsUpTo(levels, v, strict) ==
    DotCount(SubSeqAt(levels, {i \in 1..Len(levels) :
                                  levels[i].rate < v \/ (~strict /\ levels[i].rate = v)}))

\* the k-th smallest dot
DotOfRank(levels, k) ==
    levels[CHOOSE i \in 1..Len(levels) :
              /\ DotsUpTo(levels, levels[i].rate, TRUE) < k
              /\ k <= DotsUpTo(levels, levels[i].rate, FALSE)].rate

\* four times the value at position (n - 1) * j / 4 of the ascending sample
FourTimesQuantile(levels, n, j) ==
    DotOfRank(levels, ((n - 1) * j) \div 4 + 1) * (4 - (((n - 1) * j) % 4))
    + DotOfRank(levels, IF ((n - 1) * j) \div 4 + 2 <= n
                        THEN ((n - 1) * j) \div 4 + 2 ELSE n) * (((n - 1) * j) % 4)

\* what the claim says of a result, given the rate levels and their dots
QuantilesOfLevels(levels, n, result) ==
    /\ result.n = n
    /\ n = 0 => result = NoDots
    /\ n > 0 =>
         /\ 4 * result.p25 = FourTimesQuantile(levels, n, 1)
         /\ 4 * result.p75 = FourTimesQuantile(levels, n, 3)
         /\ 2 * result.p50 = DotOfRank(levels, (n + 1) \div 2) + DotOfRank(levels, n \div 2 + 1)

\* the items of a dictionary with the keys in the order of DotKeys: every
\* order of the same items has this one rearrangement
KeysInListOrder(dots) ==
    StableSortByKey(dots, [i \in 1..Len(dots) |->
                              <<CHOOSE k \in 1..Len(DotKeys) : DotKeys[k] = dots[i].rate>>])

\* C20: dots_to_percentiles returns n, the sum of the dot counts; p50, the
\* median of the dots in ascending order; p25 and p75, interpolated linearly
\* at positions (n - 1) / 4 and 3 (n - 1) / 4; the same for every order of the
\* keys; and n = 0 with three nulls for a mapping that is empty or holds
\* zeros only.  (Every order of the keys gives the same result when each
\* gives the result of the one order KeysInListOrder puts them in.)
DotsQuantiles ==
    pc_dq = "returned" =>
        /\ QuantilesOfLevels(RateLevels(dq_dots), DotCount(RateLevels(dq_dots)), dq_result)
        /\ dots_to_percentiles(KeysInListOrder(dq_dots)) = dq_result

\* a mapping with a higher level first and the median strictly between two
\* dots, as {"3": 2, "2.5": 2} with n = 4, p25 = 2.5, p50 = 2.75, p75 = 3.0
DotsQuantilesWitness ==
    /\ pc_dq = "returned"
    /\ Len(dq_dots) >= 2
    /\ ParseFloat(dq_dots[1].rate) # Null
    /\ ParseFloat(dq_dots[2].rate) # Null
    /\ ParseFloat(dq_dots[1].rate) > ParseFloat(dq_dots[2].rate)
    /\ dq_result.n >= 4
    /\ \A i \in 1..Len(dq_dots) : dq_result.p50 # ParseFloat(dq_dots[i].rate)
    /\ dq_result.p25 < dq_result.p50
    /\ dq_result.p50 < dq_result.p75
    /\ KeysInListOrder(dq_dots) # dq_dots


-----------------------------------------------------------------------------
(* Properties of the record dates *)

\* the day of the month of a date
DayOfMonth(date) == date % 100

\* C21: every record that the spreadsheet step and the survey PDF step write
\* is dated on the first day of a month, also when neither the file name nor
\* the response gives a month or a year.
RecordsDatedFirstOfMonth ==
    /\ \A i \in 1..Len(s2_all_results) : DayOfMonth(s2_all_results[i].survey_date) = 1
    /\ \A i \in 1..Len(s3_results) : DayOfMonth(s3_results[i].survey_date) = 1


-----------------------------------------------------------------------------
(* Properties of the pipeline runners *)

\* C22: when the credential of the inference service is not set, a run of a
\* pipeline handles no document: nothing is downloaded and nothing is
\* extracted before the missing credential stops the run.
NoWorkWithoutCredential ==
    ~run_env.api_key /\ pc_run # "off" => run_work = <<>>


-----------------------------------------------------------------------------
(* Properties of re-running a combine step *)

\* C23: after every run of the SEP combine step since the first, with the
\* extract of the PDFs left as it is, the combined table is the one the
\* first run wrote: the same rows, values and source tags.
SepRerunSameTable ==
    sc_runs >= 1 /\ sc_first # <<>> => sc_summary.rows = sc_first


-----------------------------------------------------------------------------
(* Properties of parse_percentiles_from_text *)

\* the patterns of a slot that match the text, by their place in the list
MatchingPatterns(text, key) ==
    {k \in 1..Len(PERCENTILE_ROW_PATTERNS) :
        /\ PERCENTILE_ROW_PATTERNS[k].pctl_key = key
        /\ SearchPattern(PERCENTILE_ROW_PATTERNS[k], text) # <<>>}

\* C24: each slot has the value of the first pattern of the list that
\* matches for it, and is left None when no pattern of the slot matches.
FirstPatternWins ==
    pc_pp = "returned" =>
        \A key \in PercentileKeys :
            IF MatchingPatterns(pp_text, key) = {} THEN pp_result[key] = Null
            ELSE pp_result[key] = normalize_percent(PyNum(ParseFloat(SearchPattern(
                     PERCENTILE_ROW_PATTERNS[CHOOSE k \in MatchingPatterns(pp_text, key) :
                         \A m \in MatchingPatterns(pp_text, key) : k <= m],
                     pp_text))))


-----------------------------------------------------------------------------
(* Properties of find_longer_run_section *)

\* the sections cut out of page p
SectionsOfPage(p) == {k \in 1..Len(fs_sections) : fs_sections[k].page_num = p}

\* C25: every page whose text satisfies matches_longer_run_ff has exactly
\* one section and every other page has none; a section is a part of its
\* page's text that starts at most 500 characters before the located match
\* and ends at most 1500 characters after it.
OneSectionPerMatchingPage ==
    pc_fs = "returned" =>
        /\ \A p \in 1..Len(fs_pages) :
              Cardinality(SectionsOfPage(p)) = IF matches_longer_run_ff(fs_pages[p]) THEN 1 ELSE 0
        /\ \A k \in 1..Len(fs_sections) :
              LET s == fs_sections[k]
                  located == LocatedMatch(Lower(fs_pages[s.page_num]))
              IN  /\ 0 <= s.start /\ s.start <= s.end /\ s.end <= Len(fs_pages[s.page_num])
                  /\ s.section = SubSeq(fs_pages[s.page_num], s.start + 1, s.end)
                  /\ s.start >= located.start - 500
                  /\ s.end <= located.end + 1500


-----------------------------------------------------------------------------
(* Properties of parse_date_from_url *)

\* the file name of a URL without its extension, in lower case
StemOf(url) ==
    LET filename == Lower(LastSegment(url))
        dots == {i \in 1..Len(filename) : filename[i] = "."}
    IN  IF dots = {} THEN filename
        ELSE SubSeq(filename, 1, (CHOOSE i \in dots : \A k \in dots : k <= i) - 1)

\* the same URL with the other of the two extensions
OtherExtension(url) ==
    LET ext == CHOOSE e \in DOMAIN FileExtensions :
                   /\ Len(url) >= Len(FileExtensions[e])
                   /\ SubSeq(url, Len(url) - Len(FileExtensions[e]) + 1, Len(url)) = FileExtensions[e]
    IN  SubSeq(url, 1, Len(url) - Len(FileExtensions[ext])) \o FileExtensions[3 - ext]

ParticipantMarker(stem) ==
    \E marker \in {<<"s", "m", "p">>, <<"m", "p", "_">>, <<"m", "p", "-">>,
                   <<"p", "a", "r", "t", "i", "c", "i", "p", "a", "n", "t">>} : Contains(stem, marker)

DealerMarker(stem) ==
    \E marker \in {<<"s", "p", "d">>, <<"p", "d">>, <<"p", "r", "i", "m", "a", "r", "y">>} :
        Contains(stem, marker)

\* C26: the survey type comes from the panel markers of the file name
\* without its extension: a name with a market-participant marker and no
\* dealer marker (and no sme) gives SMP; SPD is given only for a dealer
\* marker or, up to 2014, for a name with no marker; and the same name with
\* the other extension gives the same survey type.
SurveyTypeFromPanelMarkers ==
    pc_pu = "returned" /\ YearOfPath(Lower(pu_url)) # Null =>
        /\ (/\ ParticipantMarker(StemOf(pu_url))
            /\ ~DealerMarker(StemOf(pu_url))
            /\ ~Contains(StemOf(pu_url), <<"s", "m", "e">>))
               => pu_result.survey_type = PANEL_SMP
        /\ pu_result.survey_type = PANEL_SPD =>
               \/ DealerMarker(StemOf(pu_url))
               \/ YearOfPath(Lower(pu_url)) <= 2014 /\ ~ParticipantMarker(StemOf(pu_url))
        /\ pu_result.survey_type = parse_date_from_url(OtherExtension(pu_url)).survey_type


-----------------------------------------------------------------------------
(* Properties of the records that carry no data *)

\* a record with at least one percentile
CarriesData(r) == \E key \in PercentileKeys : r[key] # Null

\* C27: when a record read by the combine step carries data, the record kept
\* for its (survey_date, panel) pair carries data too.
DataNeverDiscarded ==
    pc_combine = "done" =>
        \A i \in 1..Len(ConcatExtracts) :
            CarriesData(ConcatExtracts[i]) =>
                \E k \in 1..Len(combined) :
                    /\ SamePair(combined[k], ConcatExtracts[i])
                    /\ CarriesData(combined[k])


-----------------------------------------------------------------------------
(* Properties of the source tag of extract_from_pdf *)

\* the slots of the record whose value is one that OCR read on a page
SlotsReadFromOcr ==
    {key \in PercentileKeys :
        /\ pd_results[1][key] # Null
        /\ \E p \in 1..pd_doc.npages :
              pd_doc.ocr[p].matches /\ pd_doc.ocr[p].parsed[key] = pd_results[1][key]}

\* C28: the record of extract_from_pdf is tagged pdf_ocr only when one of
\* its percentiles was read from OCR text, and pdf_text otherwise.
OcrTagNeedsOcrValue ==
    pc_pd = "returned" =>
        /\ pd_results[1].source \in {SOURCE_PDF_TEXT, SOURCE_PDF_OCR}
        /\ pd_results[1].source = SOURCE_PDF_OCR => SlotsReadFromOcr # {}


-----------------------------------------------------------------------------
(* Properties of the downloaded files *)

\* C29: process_meeting looks for the file of a link at the path under which
\* the downloader saved it, so a file that was downloaded is found and
\* handed to an extractor.
DownloadedFileIsFound ==
    /\ pc_dl # "off" => MeetingLocalPath(dl_url) = get_local_path(dl_url)
    /\ pc_dl = "processed" /\ Exists(dl_files, get_local_path(dl_url))
          => dl_found = get_local_path(dl_url)

\* C30: download_file returns True only when the whole content is at
\* dest_path: once an attempt has failed part-way through writing, no call
\* reports the file as downloaded before a download has written all of it;
\* and a call makes at most 3 requests.
TrueMeansCompleteFile ==
    /\ dl_return = "True" =>
          /\ dl_full
          /\ [path |-> get_local_path(dl_url), content |-> "complete"] \in dl_files
    /\ dl_requests <= 3

=============================================================================
